---- MODULE Spec2Model ----
(***************************************************************************)
(* Model of the spatial restriction engine of MobilityDB/MEOS for temporal *)
(* points (meos/src/point/tpoint_restrfuncs.c): the 2D segment kernel, the *)
(* self-intersection splitter, the restriction to a geometry or to a       *)
(* spatiotemporal box, and the extended Cohen-Sutherland clip.             *)
(*                                                                         *)
(* Every entry point is a pure function of its arguments.  A specification *)
(* stages the arguments of one family of entry points in arg (Init draws   *)
(* them from bounded sets) and an action applies the entry point, leaving  *)
(* what it returns in res.  Array indices are those of the C code          *)
(* (0-based); TInstant arrays are TLA+ sequences read through InstN.       *)
(* Coordinates are exact integers or rationals: floating-point roundoff is *)
(* not modelled.                                                           *)
(***************************************************************************)
EXTENDS Integers, Sequences, FiniteSets, TLC

VARIABLES
  op,   \* the family of entry points whose arguments are staged
  pc,   \* "call": arguments staged; otherwise the entry point that returned
  arg,  \* the arguments
  res   \* what the entry point returned (NoRes before the call)

vars == <<op, pc, arg, res>>

NoRes == [none |-> TRUE]

\* The NULL pointer
Null == [null |-> TRUE]

\* The only element of a singleton set: Only({F(v) : v \in {e}}) is F(e) with
\* e evaluated once
Only(S) == CHOOSE r \in S : TRUE

(***************************************************************************)
(* Bounds of the model                                                     *)
(***************************************************************************)
\* largest coordinate of the positions of a sequence given to the splitter
MaxCoord == 1
\* largest number of instants of a sequence given to the splitter
MaxLen == 3
\* largest coordinate, in grid steps, of the endpoints given to the segment
\* kernel
MaxSegCoord == 3
\* largest coordinate, in box steps, of the endpoints given to the clip; the
\* clip box spans ClipBoxMin .. ClipBoxMax
MaxClipCoord == 4
\* largest coordinate, in box steps, of the instants and boxes of the
\* per-instant box test
MaxInstCoord == 3
\* largest number of instants of a step sequence restricted to a geometry or a
\* box
MaxStepLen == 4
\* largest number of instants, and largest coordinate in units of LinStep, of
\* a linear sequence restricted to a box
MaxLinLen == 3
MaxLinCoord == 2
\* largest number of instants of a sequence given to the entry points
MaxTopLen == 2
ClipBoxMin == 1
ClipBoxMax == 3

(***************************************************************************)
(* Generic helpers                                                         *)
(***************************************************************************)
Abs(n) == IF n < 0 THEN -n ELSE n
Min(a, b) == IF a < b THEN a ELSE b
Max(a, b) == IF a > b THEN a ELSE b
SIGNUM(n) == IF n > 0 THEN 1 ELSE IF n < 0 THEN -1 ELSE 0

\* interpType (meos.h)
INTERP_NONE == 0
DISCRETE == 1
STEP == 2
LINEAR == 3

\* MEOS_EPSILON = 1.0e-06 as the rational EPS_NUM / EPS_DEN
EPS_NUM == 1
EPS_DEN == 1000000

\* Coordinates are integers counting steps of 1 / GridDen, which makes
\* MEOS_EPSILON a whole number of squared steps
GridDen == 2000
EpsArea == (EPS_NUM * GridDen * GridDen) \div EPS_DEN

\* TSEQUENCE_INST_N(seq, i), i counted from 0
InstN(insts, i) == insts[i + 1]

\* datum_point_eq: exact equality of two point values
datum_point_eq(v1, v2) == v1 = v2

\* A call of tsequence_make: the arguments as passed
tsequence_make(insts, lower_inc, upper_inc, interp) ==
  [insts |-> insts, lower_inc |-> lower_inc, upper_inc |-> upper_inc,
   interp |-> interp]

\* The validity tsequence_make requires of its arguments: a single instant has
\* inclusive bounds, timestamps increase strictly, and a step sequence with an
\* exclusive upper bound ends with two equal values
ValidSequence(s) ==
  /\ Len(s.insts) >= 1
  /\ Len(s.insts) = 1 => (s.lower_inc /\ s.upper_inc)
  /\ \A i \in 1 .. Len(s.insts) - 1 : s.insts[i].t < s.insts[i + 1].t
  /\ (s.interp = STEP /\ ~s.upper_inc /\ Len(s.insts) > 1) =>
       datum_point_eq(s.insts[Len(s.insts) - 1].v, s.insts[Len(s.insts)].v)

(***************************************************************************)
(* 2D segment kernel.  Points are records [x, y] of grid coordinates.  The  *)
(* FP_TOLERANCE of liblwgeom (1e-12) is below one grid step and separates  *)
(* no two distinct coordinates.                                            *)
(***************************************************************************)
MEOS_SEG_NO_INTERSECTION == 0
MEOS_SEG_OVERLAP == 1
MEOS_SEG_CROSS == 2
MEOS_SEG_TOUCH_END == 3
MEOS_SEG_TOUCH == 4

Pt(x, y) == [x |-> x, y |-> y]

\* fabs(v) < MEOS_EPSILON for a product v of two coordinate differences
LtEpsilon(v) == Abs(v) < EpsArea

\* FP_GT, FP_LT of liblwgeom on grid coordinates
FP_GT(a, b) == a > b
FP_LT(a, b) == a < b

\* Mutant: the segments overlap only when their bounding boxes have more
\* than a point in common along x and along y
parseg2d_intersection_both(a, b, c, d, p0) ==
  LET xmin == Max(Min(a.x, b.x), Min(c.x, d.x))
      xmax == Min(Max(a.x, b.x), Max(c.x, d.x))
      ymin == Max(Min(a.y, b.y), Min(c.y, d.y))
      ymax == Min(Max(a.y, b.y), Max(c.y, d.y))
  IN  IF xmin < xmax /\ ymin < ymax
        THEN [type |-> MEOS_SEG_OVERLAP, p |-> p0]
      ELSE IF (b.x = c.x /\ b.y = c.y) \/ (b.x = d.x /\ b.y = d.y)
        THEN [type |-> MEOS_SEG_TOUCH_END, p |-> Pt(b.x, b.y)]
      ELSE IF (a.x = c.x /\ a.y = c.y) \/ (a.x = d.x /\ a.y = d.y)
        THEN [type |-> MEOS_SEG_TOUCH_END, p |-> Pt(a.x, a.y)]
      ELSE [type |-> MEOS_SEG_NO_INTERSECTION, p |-> p0]

parseg2d_intersection(a, b, c, d, p0) ==
  LET xmin == Max(Min(a.x, b.x), Min(c.x, d.x))
      xmax == Min(Max(a.x, b.x), Max(c.x, d.x))
      ymin == Max(Min(a.y, b.y), Min(c.y, d.y))
      ymax == Min(Max(a.y, b.y), Max(c.y, d.y))
  IN  IF xmin < xmax \/ ymin < ymax
        THEN [type |-> MEOS_SEG_OVERLAP, p |-> p0]
      ELSE IF (b.x = c.x /\ b.y = c.y) \/ (b.x = d.x /\ b.y = d.y)
        THEN [type |-> MEOS_SEG_TOUCH_END, p |-> Pt(b.x, b.y)]
      ELSE IF (a.x = c.x /\ a.y = c.y) \/ (a.x = d.x /\ a.y = d.y)
        THEN [type |-> MEOS_SEG_TOUCH_END, p |-> Pt(a.x, a.y)]
      ELSE [type |-> MEOS_SEG_NO_INTERSECTION, p |-> p0]

seg2d_side(p1, p2, q) ==
  LET side == (q.x - p1.x) * (p2.y - p1.y) - (p2.x - p1.x) * (q.y - p1.y)
  IN  IF LtEpsilon(side) THEN 0 ELSE SIGNUM(side)

lw_seg_interact(p1, p2, q1, q2) ==
  LET minqx == Min(q1.x, q2.x)
      maxqx == Max(q1.x, q2.x)
      minpx == Min(p1.x, p2.x)
      maxpx == Max(p1.x, p2.x)
      minqy == Min(q1.y, q2.y)
      maxqy == Max(q1.y, q2.y)
      minpy == Min(p1.y, p2.y)
      maxpy == Max(p1.y, p2.y)
  IN  IF FP_GT(minpx, maxqx) \/ FP_LT(maxpx, minqx) THEN FALSE
      ELSE IF FP_GT(minpy, maxqy) \/ FP_LT(maxpy, minqy) THEN FALSE
      ELSE TRUE

\* Mutant: the test for equal endpoints is dropped from the touching case
seg2d_intersection_noend(a, b, c, d, p0) ==
  IF ~lw_seg_interact(a, b, c, d)
    THEN [type |-> MEOS_SEG_NO_INTERSECTION, p |-> p0]
  ELSE
    LET pq1 == seg2d_side(a, b, c)
        pq2 == seg2d_side(a, b, d)
        qp1 == seg2d_side(c, d, a)
        qp2 == seg2d_side(c, d, b)
    IN  IF (pq1 > 0 /\ pq2 > 0) \/ (pq1 < 0 /\ pq2 < 0)
          THEN [type |-> MEOS_SEG_NO_INTERSECTION, p |-> p0]
        ELSE IF (qp1 > 0 /\ qp2 > 0) \/ (qp1 < 0 /\ qp2 < 0)
          THEN [type |-> MEOS_SEG_NO_INTERSECTION, p |-> p0]
        ELSE IF pq1 = 0 /\ pq2 = 0 /\ qp1 = 0 /\ qp2 = 0
          THEN parseg2d_intersection(a, b, c, d, p0)
        ELSE IF pq1 = 0 \/ pq2 = 0 \/ qp1 = 0 \/ qp2 = 0
          THEN [type |-> MEOS_SEG_TOUCH, p |-> p0]
        ELSE [type |-> MEOS_SEG_CROSS, p |-> p0]

seg2d_intersection(a, b, c, d, p0) ==
  IF ~lw_seg_interact(a, b, c, d)
    THEN [type |-> MEOS_SEG_NO_INTERSECTION, p |-> p0]
  ELSE
    LET pq1 == seg2d_side(a, b, c)
        pq2 == seg2d_side(a, b, d)
        qp1 == seg2d_side(c, d, a)
        qp2 == seg2d_side(c, d, b)
    IN  IF (pq1 > 0 /\ pq2 > 0) \/ (pq1 < 0 /\ pq2 < 0)
          THEN [type |-> MEOS_SEG_NO_INTERSECTION, p |-> p0]
        ELSE IF (qp1 > 0 /\ qp2 > 0) \/ (qp1 < 0 /\ qp2 < 0)
          THEN [type |-> MEOS_SEG_NO_INTERSECTION, p |-> p0]
        ELSE IF pq1 = 0 /\ pq2 = 0 /\ qp1 = 0 /\ qp2 = 0
          THEN parseg2d_intersection(a, b, c, d, p0)
        ELSE IF pq1 = 0 \/ pq2 = 0 \/ qp1 = 0 \/ qp2 = 0
          THEN IF (b.x = c.x /\ b.y = c.y) \/ (b.x = d.x /\ b.y = d.y)
                 THEN [type |-> MEOS_SEG_TOUCH_END, p |-> Pt(b.x, b.y)]
               ELSE IF (a.x = c.x /\ a.y = c.y) \/ (a.x = d.x /\ a.y = d.y)
                 THEN [type |-> MEOS_SEG_TOUCH_END, p |-> Pt(a.x, a.y)]
               ELSE [type |-> MEOS_SEG_TOUCH, p |-> p0]
        ELSE [type |-> MEOS_SEG_CROSS, p |-> p0]

(***************************************************************************)
(* Self-intersection splitter                                              *)
(***************************************************************************)
\* The inner while (true) of tpointseq_discstep_find_splits together with the
\* outer while (start < end): st = [start, j, k, bitarr, numsplits]
RECURSIVE discstep_scan(_, _, _)
discstep_scan(insts, end, st) ==
  IF datum_point_eq(InstN(insts, st.j).v, InstN(insts, st.k).v)
    THEN LET bitarr == [st.bitarr EXCEPT ![st.k] = TRUE]
             numsplits == st.numsplits + 1
             start == st.k
         IN  \* break; if (k > end) is false here; while (start < end)
             IF start < end
               THEN discstep_scan(insts, end,
                      [start |-> start, j |-> start, k |-> start + 1,
                       bitarr |-> bitarr, numsplits |-> numsplits])
             ELSE [bitarr |-> bitarr, count |-> numsplits]
  ELSE IF st.j < st.k - 1
    THEN discstep_scan(insts, end, [st EXCEPT !.j = st.j + 1])
  ELSE IF st.k + 1 > end
    THEN [bitarr |-> st.bitarr, count |-> st.numsplits]
  ELSE discstep_scan(insts, end, [st EXCEPT !.k = st.k + 1, !.j = st.start])

\* Mutant: only consecutive instants are compared
discstep_find_splits_adjacent(seq) ==
  LET count == Len(seq.insts)
      cuts == { k \in 1 .. count - 1 :
                  datum_point_eq(InstN(seq.insts, k - 1).v, InstN(seq.insts, k).v) }
  IN  [bitarr |-> [i \in 0 .. count - 1 |-> i \in cuts],
       count |-> Cardinality(cuts)]

\* @pre seq->count > 1
tpointseq_discstep_find_splits(seq) ==
  LET count == Len(seq.insts)
      end == count - 1
  IN  IF 0 < end
        THEN discstep_scan(seq.insts, end,
               [start |-> 0, j |-> 0, k |-> 1,
                bitarr |-> [i \in 0 .. count - 1 |-> FALSE], numsplits |-> 0])
      ELSE [bitarr |-> [i \in 0 .. count - 1 |-> FALSE], count |-> 0]

\* The for loop of tpointseq_linear_find_splits marking stationary segments
RECURSIVE linear_stationary(_, _, _)
linear_stationary(points, i, st) ==
  LET count == Len(points)
  IN  IF i >= count THEN st
      ELSE IF InstN(points, i - 1).x = InstN(points, i).x
              /\ InstN(points, i - 1).y = InstN(points, i).y
        THEN LET first == i > 1 /\ ~st.bitarr[i - 1]
                 b1 == IF first THEN [st.bitarr EXCEPT ![i - 1] = TRUE]
                       ELSE st.bitarr
                 n1 == IF first THEN st.numsplits + 1 ELSE st.numsplits
                 second == i < count - 1
                 b2 == IF second THEN [b1 EXCEPT ![i] = TRUE] ELSE b1
                 n2 == IF second THEN n1 + 1 ELSE n1
             IN  linear_stationary(points, i + 1,
                   [bitarr |-> b2, numsplits |-> n2])
      ELSE linear_stationary(points, i + 1, st)

\* Mutant: the end of the window is not advanced
next_end_stay(bitarr, count, end) == end - 1

\* while (end < seq->count - 1 && ! bitarr[end]) end++
RECURSIVE next_end(_, _, _)
next_end(bitarr, count, end) ==
  IF end < count - 1 /\ ~bitarr[end] THEN next_end(bitarr, count, end + 1)
  ELSE end

\* Mutant: two consecutive segments touching at their common vertex are not
\* excluded
linear_pair_splits_noexclude(points, i, j) ==
  /\ lw_seg_interact(InstN(points, i), InstN(points, i + 1),
                     InstN(points, j), InstN(points, j + 1))
  /\ seg2d_intersection(InstN(points, i), InstN(points, i + 1),
        InstN(points, j), InstN(points, j + 1), Pt(0, 0)).type > 0

\* The intersection test of a pair of segments in tpointseq_linear_find_splits
linear_pair_splits(points, i, j) ==
  /\ lw_seg_interact(InstN(points, i), InstN(points, i + 1),
                     InstN(points, j), InstN(points, j + 1))
  /\ LET r == seg2d_intersection(InstN(points, i), InstN(points, i + 1),
                InstN(points, j), InstN(points, j + 1), Pt(0, 0))
     IN  /\ r.type > 0
         /\ \/ r.type # MEOS_SEG_TOUCH_END
            \/ j # i + 1
            \/ r.p.x # InstN(points, j).x
            \/ r.p.y # InstN(points, j).y

\* while (j < end): the new end, which is a split when found
RECURSIVE linear_scan(_, _, _, _, _)
linear_scan(points, start, end, i, j) ==
  IF j >= end THEN [end |-> end, found |-> FALSE]
  ELSE IF linear_pair_splits(points, i, j) THEN [end |-> j, found |-> TRUE]
  ELSE IF i < j - 1 THEN linear_scan(points, start, end, i + 1, j)
  ELSE linear_scan(points, start, end, start, j + 1)

\* while (start < seq->count - 2)
RECURSIVE linear_windows(_, _, _)
linear_windows(points, start, st) ==
  LET count == Len(points)
  IN  IF start >= count - 2 THEN st
      ELSE LET end == next_end(st.bitarr, count, start + 1)
           IN  IF end = start + 1 THEN linear_windows(points, end, st)
               ELSE LET r == linear_scan(points, start, end, start, start + 1)
                    IN  linear_windows(points, r.end,
                          IF r.found
                            THEN [bitarr |-> [st.bitarr EXCEPT ![r.end] = TRUE],
                                  numsplits |-> st.numsplits + 1]
                          ELSE st)

\* Mutant: every instant but the first and the last one is a split
tpointseq_linear_find_splits_all(seq) ==
  LET count == Len(seq.insts)
  IN  [bitarr |-> [i \in 0 .. count - 1 |-> 0 < i /\ i < count - 1],
       count |-> count - 2]

\* @pre seq->count >= 2
tpointseq_linear_find_splits(seq) ==
  LET count == Len(seq.insts)
      points == [i \in 1 .. count |-> Pt(seq.insts[i].v.x, seq.insts[i].v.y)]
      st0 == linear_stationary(points, 1,
               [bitarr |-> [i \in 0 .. count - 1 |-> FALSE], numsplits |-> 0])
      st1 == linear_windows(points, 0, st0)
  IN  [bitarr |-> st1.bitarr, count |-> st1.numsplits]


\* Order of two point values used by datumarr_sort
PointLe(a, b) == a.x < b.x \/ (a.x = b.x /\ a.y <= b.y)

RECURSIVE InsertSorted(_, _)
InsertSorted(sorted, v) ==
  IF sorted = <<>> THEN <<v>>
  ELSE IF PointLe(v, Head(sorted)) THEN <<v>> \o sorted
  ELSE <<Head(sorted)>> \o InsertSorted(Tail(sorted), v)

RECURSIVE datumarr_sort(_)
datumarr_sort(values) ==
  IF values = <<>> THEN <<>>
  ELSE InsertSorted(datumarr_sort(Tail(values)), Head(values))

\* @pre seq->count > 1
tpointseq_discstep_is_simple(seq) ==
  LET points == datumarr_sort([i \in 1 .. Len(seq.insts) |-> seq.insts[i].v])
      found == \E i \in 1 .. Len(points) - 1 :
                 datum_point_eq(InstN(points, i - 1), InstN(points, i))
  IN  ~found

tpointseq_is_simple(seq) ==
  IF Len(seq.insts) = 1 THEN TRUE
  ELSE IF seq.interp # LINEAR THEN tpointseq_discstep_is_simple(seq)
  ELSE tpointseq_linear_find_splits(seq).count = 0

\* while (end < seq->count && ! splits[end]) end++
RECURSIVE next_end_disc(_, _, _)
next_end_disc(splits, count, end) ==
  IF end < count /\ ~splits[end] THEN next_end_disc(splits, count, end + 1)
  ELSE end

\* instants[j] = TSEQUENCE_INST_N(seq, j + start) for j in 0 .. n - 1
Piece(insts, start, n) == [j \in 1 .. n |-> InstN(insts, j - 1 + start)]

\* while (start < seq->count) of tpointseq_disc_split: the fragments written
RECURSIVE disc_split_loop(_, _, _, _)
disc_split_loop(seq, splits, start, result) ==
  LET count == Len(seq.insts)
  IN  IF start >= count THEN result
      ELSE LET end == next_end_disc(splits, count, start + 1)
           IN  disc_split_loop(seq, splits, end,
                 Append(result,
                   tsequence_make(Piece(seq.insts, start, end - start),
                     TRUE, TRUE, DISCRETE)))

tpointseq_disc_split(seq, splits, count) ==
  disc_split_loop(seq, splits, 0, <<>>)

\* One fragment of the while loop of tpointseq_cont_split
cont_fragment(seq, splits, start, end) ==
  LET count == Len(seq.insts)
      linear == seq.interp = LINEAR
      instants == Piece(seq.insts, start, end - start + 1)
      lower_inc1 == IF start = 0 THEN seq.lower_inc ELSE TRUE
      upper_inc1 == IF end = count - 1
                      THEN seq.upper_inc /\ ~splits[count - 1]
                    ELSE FALSE
      last == InstN(instants, end - start)
      prev == InstN(instants, end - start - 1)
      synthetic == ~linear /\ ~upper_inc1 /\ ~datum_point_eq(prev.v, last.v)
      instants1 == IF synthetic
                     THEN [instants EXCEPT ![end - start + 1] =
                             [v |-> prev.v, t |-> last.t]]
                   ELSE instants
  IN  tsequence_make(instants1, lower_inc1, upper_inc1,
        IF linear THEN LINEAR ELSE STEP)

\* while (start < seq->count - 1) of tpointseq_cont_split
RECURSIVE cont_split_loop(_, _, _, _)
cont_split_loop(seq, splits, start, result) ==
  LET count == Len(seq.insts)
  IN  IF start >= count - 1 THEN [result |-> result, start |-> start]
      ELSE LET end == next_end(splits, count, start + 1)
           IN  cont_split_loop(seq, splits, end,
                 Append(result, cont_fragment(seq, splits, start, end)))

\* Mutant: the last fragment holding the last instant is never added
tpointseq_cont_split_nolast(seq, splits, count) ==
  cont_split_loop(seq, splits, 0, <<>>).result

\* @pre seq->count > 2.  The interpolation of the last fragment is the bool
\* linear converted to interpType
tpointseq_cont_split(seq, splits, count) ==
  LET linear == seq.interp = LINEAR
  IN  Only({ IF Len(r.result) < count
               THEN Append(r.result,
                      tsequence_make(
                        Piece(<<InstN(seq.insts, Len(seq.insts) - 1)>>, 0,
                              Len(seq.insts) - r.start),
                        TRUE, seq.upper_inc, IF linear THEN 1 ELSE 0))
             ELSE r.result :
               r \in { cont_split_loop(seq, splits, 0, <<>>) } })

\* The fragments written and the count returned, with the splits and the
\* number of splits the splitter returned (Null when no splitter is called)
tpointseq_make_simple(seq) ==
  IF (seq.interp = DISCRETE /\ Len(seq.insts) = 1)
     \/ (seq.interp # DISCRETE /\ Len(seq.insts) <= 2)
    THEN [frags |-> <<seq>>, count |-> 1, splits |-> Null, numsplits |-> 0]
  ELSE
    Only({ IF sp.count = 0
             THEN [frags |-> <<seq>>, count |-> 1,
                   splits |-> sp.bitarr, numsplits |-> sp.count]
           ELSE [frags |-> IF seq.interp = DISCRETE
                             THEN tpointseq_disc_split(seq, sp.bitarr,
                                    sp.count + 1)
                           ELSE tpointseq_cont_split(seq, sp.bitarr,
                                  sp.count + 1),
                 count |-> sp.count + 1,
                 splits |-> sp.bitarr, numsplits |-> sp.count] :
             sp \in { IF seq.interp = LINEAR
                        THEN tpointseq_linear_find_splits(seq)
                      ELSE tpointseq_discstep_find_splits(seq) } })

(***************************************************************************)
(* Specification of the splitter: make_simple and is_simple applied to a   *)
(* valid sequence                                                          *)
(***************************************************************************)
\* Positions of the splitter's sequences: whole units
SplitPoints ==
  {Pt(x * GridDen, y * GridDen) : x \in 0 .. MaxCoord, y \in 0 .. MaxCoord}

\* Sequences of 1 .. MaxLen instants at the timestamps 1, 2, ...
SimpleInputs ==
  { s \in UNION { [insts : { [i \in 1 .. n |-> [v |-> f[i], t |-> i]] :
                               f \in [1 .. n -> SplitPoints] },
                   lower_inc : BOOLEAN, upper_inc : BOOLEAN,
                   interp : {DISCRETE, STEP, LINEAR}] : n \in 1 .. MaxLen } :
      /\ ValidSequence(s)
      /\ s.interp = DISCRETE => (s.lower_inc /\ s.upper_inc) }

InitSimple ==
  /\ op = "simple"
  /\ pc = "call"
  /\ arg \in SimpleInputs
  /\ res = NoRes

\* tpointseq_make_simple(seq, &count).  error: a fragment was constructed with
\* arguments tsequence_make rejects
MakeSimple ==
  /\ op = "simple" /\ pc = "call"
  /\ \E r \in {tpointseq_make_simple(arg)} :
       res' = [frags |-> r.frags, count |-> r.count,
               splits |-> r.splits, numsplits |-> r.numsplits,
               error |-> \E i \in 1 .. Len(r.frags) :
                           ~ValidSequence(r.frags[i])]
  /\ pc' = "make_simple"
  /\ UNCHANGED <<op, arg>>

\* tpointseq_is_simple(seq)
IsSimple ==
  /\ op = "simple" /\ pc = "call"
  /\ res' = [simple |-> tpointseq_is_simple(arg)]
  /\ pc' = "is_simple"
  /\ UNCHANGED <<op, arg>>

NextSimple == MakeSimple \/ IsSimple

SpecSimple == InitSimple /\ [][NextSimple]_vars


(***************************************************************************)
(* Time extents.  Time is cut into atoms: 2 * t is the timestamp t, and    *)
(* 2 * t + 1 the open interval between t and t + 1.                        *)
(***************************************************************************)
SpanAtoms(lo, hi, linc, uinc) ==
  { a \in 2 * lo .. 2 * hi : (a = 2 * lo => linc) /\ (a = 2 * hi => uinc) }

\* The time extent of a sequence: its timestamps when discrete, its period
\* otherwise
TimeOfSeq(s) ==
  IF s.interp = DISCRETE THEN { 2 * s.insts[i].t : i \in 1 .. Len(s.insts) }
  ELSE SpanAtoms(s.insts[1].t, s.insts[Len(s.insts)].t, s.lower_inc, s.upper_inc)

TimeOfSeqs(ss) == UNION { TimeOfSeq(ss[i]) : i \in 1 .. Len(ss) }

\* Fragments in increasing time order with pairwise disjoint time extents
OrderedDisjoint(ss) ==
  \A i, j \in 1 .. Len(ss) :
    i < j => \A a \in TimeOfSeq(ss[i]), b \in TimeOfSeq(ss[j]) : a < b

(***************************************************************************)
(* Claims about the splitter                                               *)
(***************************************************************************)
\* C2 (as claimed): every fragment returned by make_simple(T) satisfies
\* is_simple(fragment), for every interpolation mode, including the step
\* fragments that end with the synthetic duplicate-valued instant.
C2_FragmentsAreSimple ==
  (op = "simple" /\ pc = "make_simple") =>
    \A i \in 1 .. Len(res.frags) : tpointseq_is_simple(res.frags[i])

\* C3 (as claimed): make_simple(T) returns fragments in increasing time order,
\* pairwise disjoint in time, whose union is exactly the time extent of T,
\* with the first and last timestamps and bound flags of T, also when the last
\* instant of a step sequence is a cut.
C3_FragmentsCoverExtent ==
  (op = "simple" /\ pc = "make_simple") =>
    /\ ~res.error
    /\ OrderedDisjoint(res.frags)
    /\ TimeOfSeqs(res.frags) = TimeOfSeq(arg)
    /\ res.frags[1].insts[1].t = arg.insts[1].t
    /\ res.frags[1].lower_inc = arg.lower_inc
    /\ LET last == res.frags[Len(res.frags)]
       IN  /\ last.insts[Len(last.insts)].t = arg.insts[Len(arg.insts)].t
           /\ last.upper_inc = arg.upper_inc

C17_ContinuousFragmentBounds ==
  (op = "simple" /\ pc = "make_simple" /\ arg.interp # DISCRETE) =>
    /\ \A i \in 1 .. Len(res.frags) - 1 :
         /\ res.frags[i].insts[Len(res.frags[i].insts)].t
              = res.frags[i + 1].insts[1].t
         /\ res.frags[i].upper_inc
         /\ res.frags[i + 1].lower_inc
    /\ res.frags[1].lower_inc = arg.lower_inc
    /\ res.frags[Len(res.frags)].upper_inc = arg.upper_inc

\* The sequences make_simple copies without calling a splitter
SpecialCase ==
  Len(arg.insts) = 1 \/ (arg.interp # DISCRETE /\ Len(arg.insts) = 2)

\* C18 (as claimed): for a sequence of 1 instant and for a step or linear
\* sequence of 2 instants, also with two equal positions, make_simple returns
\* exactly one fragment equal to the input and is_simple returns true; and
\* for every sequence is_simple is true exactly when make_simple returns a
\* single fragment.
C18_ShortSequencesSimple ==
  op = "simple" =>
    /\ (pc = "make_simple" /\ SpecialCase) =>
         (res.count = 1 /\ res.frags = <<arg>>)
    /\ (pc = "is_simple" /\ SpecialCase) => res.simple
    /\ pc = "is_simple" =>
         (res.simple <=> Len(tpointseq_make_simple(arg).frags) = 1)

\* The cuts of a discrete sequence, stated declaratively: k is a cut exactly
\* when the position at k equals a position between the previous cut (or 0)
\* and k - 1
LastCutBefore(cuts, k) ==
  LET before == { c \in cuts : c < k } \cup {0}
  IN  CHOOSE m \in before : \A c \in before : c <= m

RevisitCuts(insts) ==
  CHOOSE cuts \in SUBSET (1 .. Len(insts) - 1) :
    \A k \in 1 .. Len(insts) - 1 :
      k \in cuts <=>
        \E j \in LastCutBefore(cuts, k) .. k - 1 :
          InstN(insts, j).v = InstN(insts, k).v

RECURSIVE ConcatInsts(_)
ConcatInsts(ss) ==
  IF ss = <<>> THEN <<>> ELSE Head(ss).insts \o ConcatInsts(Tail(ss))

\* Indices in the input of the first instants of the fragments, when the
\* fragments are consecutive pieces of the input
RECURSIVE FragStarts(_, _)
FragStarts(ss, from) ==
  IF ss = <<>> THEN {}
  ELSE {from} \cup FragStarts(Tail(ss), from + Len(Head(ss).insts))

\* C7: for a discrete sequence is_simple is false exactly when two instants
\* have the same position, and make_simple starts a new fragment exactly at
\* each instant whose position equals that of an earlier instant of the
\* fragment being built (A,B,A gives A,B and A).
C7_DiscreteRevisit ==
  (op = "simple" /\ arg.interp = DISCRETE) =>
    /\ pc = "is_simple" =>
         (res.simple <=>
            ~\E i, j \in 1 .. Len(arg.insts) :
               i < j /\ arg.insts[i].v = arg.insts[j].v)
    /\ pc = "make_simple" =>
         /\ res.count = Len(res.frags)
         /\ ConcatInsts(res.frags) = arg.insts
         /\ FragStarts(res.frags, 0) = {0} \cup RevisitCuts(arg.insts)
         /\ \A i \in 1 .. Len(res.frags) :
              /\ res.frags[i].interp = DISCRETE
              /\ res.frags[i].lower_inc /\ res.frags[i].upper_inc

\* C7 witness: A,B,A was split into A,B and A
C7_Witness ==
  /\ op = "simple" /\ pc = "make_simple" /\ arg.interp = DISCRETE
  /\ Len(arg.insts) = 3
  /\ arg.insts[1].v = arg.insts[3].v /\ arg.insts[1].v # arg.insts[2].v
  /\ Len(res.frags) = 2
  /\ Len(res.frags[1].insts) = 2 /\ Len(res.frags[2].insts) = 1

(***************************************************************************)
(* Specification of the segment kernel: seg2d_intersection applied to two  *)
(* segments ab and cd; arg.p is what the caller's POINT2D holds before     *)
(***************************************************************************)
SegPoints == {Pt(x, y) : x \in 0 .. MaxSegCoord, y \in 0 .. MaxSegCoord}

InitSeg ==
  /\ op = "seg"
  /\ pc = "call"
  /\ arg \in [a : SegPoints, b : SegPoints, c : SegPoints, d : SegPoints,
               p : {Pt(-1, -1)}]
  /\ res = NoRes

\* seg2d_intersection(&a, &b, &c, &d, &p)
Seg2dIntersection ==
  /\ op = "seg" /\ pc = "call"
  /\ res' = seg2d_intersection(arg.a, arg.b, arg.c, arg.d, arg.p)
  /\ pc' = "seg2d_intersection"
  /\ UNCHANGED <<op, arg>>

NextSeg == Seg2dIntersection

SpecSeg == InitSeg /\ [][NextSeg]_vars

(***************************************************************************)
(* Claims about the segment kernel                                         *)
(***************************************************************************)
\* Both segments are non-degenerate and exactly one endpoint of ab is an
\* endpoint of cd
ShareOneEndpoint ==
  /\ arg.a # arg.b /\ arg.c # arg.d
  /\ Cardinality({arg.a, arg.b} \cap {arg.c, arg.d}) = 1

SharedEndpoint == CHOOSE s \in {arg.a, arg.b} \cap {arg.c, arg.d} : TRUE

OtherEndAB == CHOOSE e \in {arg.a, arg.b} : e # SharedEndpoint
OtherEndCD == CHOOSE e \in {arg.c, arg.d} : e # SharedEndpoint

\* Cross product of the two segments taken from the shared endpoint
CrossAtShared ==
  LET s == SharedEndpoint
      u == OtherEndAB
      w == OtherEndCD
  IN  (u.x - s.x) * (w.y - s.y) - (u.y - s.y) * (w.x - s.x)

\* The bounding boxes of the two segments have more than the shared endpoint
\* in common along x or along y
BoxesShareMore ==
  LET s == SharedEndpoint
      u == OtherEndAB
      w == OtherEndCD
  IN  \/ (u.x - s.x) * (w.x - s.x) > 0
      \/ (u.y - s.y) * (w.y - s.y) > 0

\* The two segments are collinear within MEOS_EPSILON and their bounding
\* boxes share more than the endpoint
OverlapWithinTolerance ==
  /\ Abs(CrossAtShared) * EPS_DEN < EPS_NUM * GridDen * GridDen
  /\ BoxesShareMore

\* C4 (as claimed): for two non-degenerate segments that share exactly one
\* endpoint, seg2d_intersection returns MEOS_SEG_TOUCH_END and the point
\* returned is the shared endpoint.
C4_SharedEndpointTouch ==
  (op = "seg" /\ pc = "seg2d_intersection" /\ ShareOneEndpoint) =>
    /\ res.type = MEOS_SEG_TOUCH_END
    /\ res.p = SharedEndpoint

\* C4 (amended): for two non-degenerate segments that share exactly one
\* endpoint, seg2d_intersection returns MEOS_SEG_TOUCH_END and the shared
\* endpoint, unless the segments are collinear within MEOS_EPSILON and their
\* bounding boxes share more than that endpoint: then it returns
\* MEOS_SEG_OVERLAP and writes no point.
C4_SharedEndpointOnlyTouch ==
  (op = "seg" /\ pc = "seg2d_intersection" /\ ShareOneEndpoint) =>
    IF OverlapWithinTolerance
      THEN res.type = MEOS_SEG_OVERLAP /\ res.p = arg.p
    ELSE res.type = MEOS_SEG_TOUCH_END /\ res.p = SharedEndpoint

\* C4 witness: two segments with one common endpoint and clearly different
\* directions were classified as touching at it
C4_Witness ==
  /\ op = "seg" /\ pc = "seg2d_intersection" /\ ShareOneEndpoint
  /\ ~OverlapWithinTolerance
  /\ CrossAtShared # 0
  /\ res.type = MEOS_SEG_TOUCH_END
  /\ res.p = SharedEndpoint

(***************************************************************************)
(* Exact rational numbers <<n, d>>, d > 0, in lowest terms: the doubles of *)
(* the box restriction (coordinates, and the times computed from them)     *)
(***************************************************************************)
RECURSIVE Gcd(_, _)
Gcd(a, b) == IF b = 0 THEN a ELSE Gcd(b, a % b)

Rat(n, d) ==
  LET g == Gcd(Abs(n), Abs(d))
  IN  IF d < 0 THEN <<(-n) \div g, (-d) \div g>> ELSE <<n \div g, d \div g>>

RInt(n) == <<n, 1>>
RAdd(p, q) == Rat(p[1] * q[2] + q[1] * p[2], p[2] * q[2])
RSub(p, q) == Rat(p[1] * q[2] - q[1] * p[2], p[2] * q[2])
RMul(p, q) == Rat(p[1] * q[1], p[2] * q[2])
RDiv(p, q) == Rat(p[1] * q[2], p[2] * q[1])
RLt(p, q) == p[1] * q[2] < q[1] * p[2]
RLe(p, q) == p[1] * q[2] <= q[1] * p[2]

(***************************************************************************)
(* Cohen-Sutherland clip extended to 3D.  Box coordinates count steps of   *)
(* 1 / BoxDen, which makes MEOS_EPSILON a whole number EpsLen of steps.    *)
(* A point is a record [x, y, z] of rationals (z = 0 without Z dimension), *)
(* a box a record [xmin, xmax, ymin, ymax, zmin, zmax, hasz, hast, period].*)
(***************************************************************************)
BoxDen == 2000000
EpsLen == (EPS_NUM * BoxDen) \div EPS_DEN

\* Region codes
INSIDE == 0
LEFT == 1
RIGHT == 2
BOTTOM == 4
TOP == 8
FRONT == 16
BACK == 32

\* Border codes
XMAX == 1
YMAX == 2
ZMAX == 4

\* code & bit, code1 & code2 (as truth values)
HasBit(code, bit) == (code \div bit) % 2 = 1
BitAnd(code1, code2) ==
  \E bit \in {LEFT, RIGHT, BOTTOM, TOP, FRONT, BACK} :
    HasBit(code1, bit) /\ HasBit(code2, bit)

P3(x, y, z) == [x |-> x, y |-> y, z |-> z]

\* Mutant: the bottom and top faces are not tested
computeCode_noy(x, y, z, hasz, box) ==
  (IF RLt(x, box.xmin) THEN LEFT ELSE IF RLt(box.xmax, x) THEN RIGHT ELSE 0)
  + (IF hasz
       THEN IF RLt(z, box.zmin) THEN FRONT
            ELSE IF RLt(box.zmax, z) THEN BACK ELSE 0
     ELSE 0)

computeCode(x, y, z, hasz, box) ==
  (IF RLt(x, box.xmin) THEN LEFT ELSE IF RLt(box.xmax, x) THEN RIGHT ELSE 0)
  + (IF RLt(y, box.ymin) THEN BOTTOM ELSE IF RLt(box.ymax, y) THEN TOP ELSE 0)
  + (IF hasz
       THEN IF RLt(z, box.zmin) THEN FRONT
            ELSE IF RLt(box.zmax, z) THEN BACK ELSE 0
     ELSE 0)

\* Mutant: a point at less than MEOS_EPSILON above the minimum border counts
\* as on the border
computeMaxBorderCode_min(x, y, z, hasz, box) ==
  (IF RLt(RSub(x, box.xmin), RInt(EpsLen)) THEN XMAX ELSE 0)
  + (IF RLt(RSub(y, box.ymin), RInt(EpsLen)) THEN YMAX ELSE 0)
  + (IF hasz /\ RLt(RSub(z, box.zmin), RInt(EpsLen)) THEN ZMAX ELSE 0)

computeMaxBorderCode(x, y, z, hasz, box) ==
  (IF RLt(RSub(box.xmax, x), RInt(EpsLen)) THEN XMAX ELSE 0)
  + (IF RLt(RSub(box.ymax, y), RInt(EpsLen)) THEN YMAX ELSE 0)
  + (IF hasz /\ RLt(RSub(box.zmax, z), RInt(EpsLen)) THEN ZMAX ELSE 0)

\* v1 + (v2 - v1) * (border - w1) / (w2 - w1)
clip_interpolate(v1, v2, border, w1, w2) ==
  Only({ Only({ Only({ RAdd(v1, q) : q \in {RDiv(m, d[3])} }) :
                  m \in {RMul(d[1], d[2])} }) :
           d \in {<<RSub(v2, v1), RSub(border, w1), RSub(w2, w1)>>} })

\* The intersection point of the clip for the region code code_out
clip_intersection(st, code_out, box, hasz) ==
  LET zed(border, w1, w2) ==
        IF hasz THEN clip_interpolate(st.z1, st.z2, border, w1, w2)
        ELSE RInt(0)
  IN  IF HasBit(code_out, LEFT)
        THEN P3(box.xmin,
                clip_interpolate(st.y1, st.y2, box.xmin, st.x1, st.x2),
                zed(box.xmin, st.x1, st.x2))
      ELSE IF HasBit(code_out, RIGHT)
        THEN P3(box.xmax,
                clip_interpolate(st.y1, st.y2, box.xmax, st.x1, st.x2),
                zed(box.xmax, st.x1, st.x2))
      ELSE IF HasBit(code_out, BOTTOM)
        THEN P3(clip_interpolate(st.x1, st.x2, box.ymin, st.y1, st.y2),
                box.ymin,
                zed(box.ymin, st.y1, st.y2))
      ELSE IF HasBit(code_out, TOP)
        THEN P3(clip_interpolate(st.x1, st.x2, box.ymax, st.y1, st.y2),
                box.ymax,
                zed(box.ymax, st.y1, st.y2))
      ELSE IF hasz /\ HasBit(code_out, FRONT)
        THEN P3(clip_interpolate(st.x1, st.x2, box.zmin, st.z1, st.z2),
                clip_interpolate(st.y1, st.y2, box.zmin, st.z1, st.z2),
                box.zmin)
      ELSE P3(clip_interpolate(st.x1, st.x2, box.zmax, st.z1, st.z2),
              clip_interpolate(st.y1, st.y2, box.zmax, st.z1, st.z2),
              box.zmax)

\* One pass of the else branch of while (true): the endpoint outside the box
\* is replaced by the intersection point p
clip_replace(st, p, box, hasz) ==
  IF st.code1 # 0
    THEN [st EXCEPT !.x1 = p.x, !.y1 = p.y,
                    !.z1 = IF hasz THEN p.z ELSE st.z1,
                    !.code1 = computeCode(p.x, p.y,
                                IF hasz THEN p.z ELSE st.z1, hasz, box)]
  ELSE [st EXCEPT !.x2 = p.x, !.y2 = p.y,
                  !.z2 = IF hasz THEN p.z ELSE st.z2,
                  !.code2 = computeCode(p.x, p.y,
                              IF hasz THEN p.z ELSE st.z2, hasz, box)]

\* while (true) of cohenSutherlandClip: st = [x1, y1, z1, x2, y2, z2, code1,
\* code2]
RECURSIVE clip_loop(_, _, _)
clip_loop(st, box, hasz) ==
  IF st.code1 = 0 /\ st.code2 = 0 THEN [found |-> TRUE, st |-> st]
  ELSE IF BitAnd(st.code1, st.code2) THEN [found |-> FALSE, st |-> st]
  ELSE LET code_out == IF st.code1 # 0 THEN st.code1 ELSE st.code2
       IN  Only({ clip_loop(next, box, hasz) :
                    next \in { clip_replace(st,
                                 clip_intersection(st, code_out, box, hasz),
                                 box, hasz) } })

\* The outputs left by the clip after the loop ended in r; out0 is what the
\* caller's p3, p4, p3_inc, p4_inc held before the call
\* Mutant: the inclusion flags of the two output points are exchanged
clip_outputs_swapped(r, box, hasz, border_inc, out0) ==
  LET st == r.st
      max_code1 == computeMaxBorderCode(st.x1, st.y1, st.z1, hasz, box)
      max_code2 == computeMaxBorderCode(st.x2, st.y2, st.z2, hasz, box)
      p3 == P3(st.x1, st.y1, st.z1)
      p4 == P3(st.x2, st.y2, st.z2)
  IN  IF ~r.found THEN [out0 EXCEPT !.found = FALSE]
      ELSE IF border_inc
        THEN [found |-> TRUE, p3 |-> p3, p4 |-> p4,
              p3_inc |-> out0.p3_inc, p4_inc |-> out0.p4_inc]
      ELSE IF \E bit \in {XMAX, YMAX, ZMAX} :
                HasBit(max_code1, bit) /\ HasBit(max_code2, bit)
        THEN [out0 EXCEPT !.found = FALSE]
      ELSE [found |-> TRUE, p3 |-> p3, p4 |-> p4,
            p3_inc |-> max_code2 = 0, p4_inc |-> max_code1 = 0]

clip_outputs(r, box, hasz, border_inc, out0) ==
  LET st == r.st
      max_code1 == computeMaxBorderCode(st.x1, st.y1, st.z1, hasz, box)
      max_code2 == computeMaxBorderCode(st.x2, st.y2, st.z2, hasz, box)
      p3 == P3(st.x1, st.y1, st.z1)
      p4 == P3(st.x2, st.y2, st.z2)
  IN  IF ~r.found THEN [out0 EXCEPT !.found = FALSE]
      ELSE IF border_inc
        THEN [found |-> TRUE, p3 |-> p3, p4 |-> p4,
              p3_inc |-> out0.p3_inc, p4_inc |-> out0.p4_inc]
      ELSE IF \E bit \in {XMAX, YMAX, ZMAX} :
                HasBit(max_code1, bit) /\ HasBit(max_code2, bit)
        THEN [out0 EXCEPT !.found = FALSE]
      ELSE [found |-> TRUE, p3 |-> p3, p4 |-> p4,
            p3_inc |-> max_code1 = 0, p4_inc |-> max_code2 = 0]

\* Returns [found, p3, p4, p3_inc, p4_inc]
cohenSutherlandClip(p1, p2, box, hasz, border_inc, out0) ==
  LET z1 == IF hasz THEN p1.z ELSE RInt(0)
      z2 == IF hasz THEN p2.z ELSE RInt(0)
  IN  Only({ clip_outputs(r, box, hasz, border_inc, out0) :
               r \in { clip_loop(
                         [x1 |-> p1.x, y1 |-> p1.y, z1 |-> z1,
                          x2 |-> p2.x, y2 |-> p2.y, z2 |-> z2,
                          code1 |-> computeCode(p1.x, p1.y, z1, hasz, box),
                          code2 |-> computeCode(p2.x, p2.y, z2, hasz, box)],
                         box, hasz) } })

(***************************************************************************)
(* Specification of the clip: cohenSutherlandClip applied to a segment     *)
(* p1 p2 and a box.  The caller's p3, p4, p3_inc, p4_inc are uninitialized *)
(* variables (tpointseq_linear_at_stbox_xyz): the flags hold either value. *)
(***************************************************************************)
NoPoint == [none |-> TRUE]

ClipCoords == { RInt(n) : n \in 0 .. MaxClipCoord }

\* z below, inside, on the maximum border of, and above the clip box
ClipZs == { RInt(n) : n \in {0, ClipBoxMin, ClipBoxMax, MaxClipCoord} }

ClipPoints(hasz) ==
  { P3(x, y, z) : x \in ClipCoords, y \in ClipCoords,
                  z \in IF hasz THEN ClipZs ELSE {RInt(0)} }

\* The clip box, and the same box flattened along y
ClipBoxes(hasz) ==
  { [xmin |-> RInt(ClipBoxMin), xmax |-> RInt(ClipBoxMax),
     ymin |-> RInt(ylo), ymax |-> RInt(ClipBoxMax),
     zmin |-> RInt(ClipBoxMin), zmax |-> RInt(ClipBoxMax),
     hasz |-> hasz, hast |-> FALSE, period |-> NoPoint] :
     ylo \in {ClipBoxMin, ClipBoxMax} }

InitClip ==
  /\ op = "clip"
  /\ pc = "call"
  /\ \E hasz \in BOOLEAN :
       arg \in [p1 : ClipPoints(hasz), p2 : ClipPoints(hasz),
                box : ClipBoxes(hasz), hasz : {hasz}, border_inc : BOOLEAN]
  /\ res = NoRes

\* cohenSutherlandClip(p1, p2, box, hasz, border_inc, &p3, &p4, &p3_inc,
\* &p4_inc)
CohenSutherlandClip ==
  /\ op = "clip" /\ pc = "call"
  /\ \E inc3, inc4 \in BOOLEAN :
       res' = cohenSutherlandClip(arg.p1, arg.p2, arg.box, arg.hasz,
                arg.border_inc,
                [found |-> FALSE, p3 |-> NoPoint, p4 |-> NoPoint,
                 p3_inc |-> inc3, p4_inc |-> inc4])
  /\ pc' = "cohenSutherlandClip"
  /\ UNCHANGED <<op, arg>>

NextClip == CohenSutherlandClip

SpecClip == InitClip /\ [][NextClip]_vars

(***************************************************************************)
(* Claims about the clip                                                   *)
(***************************************************************************)
\* The point lies within the box, borders included
InBoxClosed(p, box, hasz) ==
  /\ RLe(box.xmin, p.x) /\ RLe(p.x, box.xmax)
  /\ RLe(box.ymin, p.y) /\ RLe(p.y, box.ymax)
  /\ hasz => (RLe(box.zmin, p.z) /\ RLe(p.z, box.zmax))

\* The point lies at MEOS_EPSILON or more below every maximum border
OffMaxBorder(p, box, hasz) ==
  /\ RLe(RInt(EpsLen), RSub(box.xmax, p.x))
  /\ RLe(RInt(EpsLen), RSub(box.ymax, p.y))
  /\ hasz => RLe(RInt(EpsLen), RSub(box.zmax, p.z))

\* Inside the box: within its borders, and off the maximum borders when they
\* do not belong to the box
InsideBox(p, box, hasz, border_inc) ==
  /\ InBoxClosed(p, box, hasz)
  /\ ~border_inc => OffMaxBorder(p, box, hasz)

\* C5 (as claimed): clipping a segment whose two endpoints lie inside the box
\* returns accepted with the output points equal to the input endpoints and
\* both inclusion flags set, in border-inclusive and in border-exclusive mode.
C5_InsideSegmentUnchanged ==
  (/\ op = "clip" /\ pc = "cohenSutherlandClip"
   /\ InsideBox(arg.p1, arg.box, arg.hasz, arg.border_inc)
   /\ InsideBox(arg.p2, arg.box, arg.hasz, arg.border_inc)) =>
    /\ res.found
    /\ res.p3 = arg.p1 /\ res.p4 = arg.p2
    /\ res.p3_inc /\ res.p4_inc

(***************************************************************************)
(* Restriction of an instant to a box.  An instant is a record [v, t,      *)
(* hasz], v a point and t a rational; a period is a record [lower, upper,  *)
(* lower_inc, upper_inc].                                                  *)
(***************************************************************************)

contains_span_value(span, t) ==
  /\ RLt(span.lower, t) \/ (span.lower = t /\ span.lower_inc)
  /\ RLt(t, span.upper) \/ (span.upper = t /\ span.upper_inc)

tpointinst_restrict_stbox_iter(inst, box, border_inc, atfunc) ==
  LET hasz == inst.hasz /\ box.hasz
      z == IF hasz THEN inst.v.z ELSE RInt(0)
      code == computeCode(inst.v.x, inst.v.y, z, hasz, box)
      max_code == IF ~border_inc
                    THEN computeMaxBorderCode(inst.v.x, inst.v.y, z, hasz, box)
                  ELSE 0
  IN  IF box.hast /\ ~contains_span_value(box.period, inst.t) THEN ~atfunc
      ELSE IF code # 0 \/ max_code # 0 THEN ~atfunc
      ELSE atfunc

tpointinst_restrict_stbox(inst, box, border_inc, atfunc) ==
  IF tpointinst_restrict_stbox_iter(inst, box, border_inc, atfunc) THEN inst
  ELSE Null

(***************************************************************************)
(* Specification of the per-instant box test: an instant at time 1         *)
(* restricted at and minus a box                                           *)
(***************************************************************************)
InstCoords == { RInt(n) : n \in 0 .. MaxInstCoord }

\* Intervals [lo, hi] of coordinates, lo = hi included
InstRanges == { r \in InstCoords \X InstCoords : RLe(r[1], r[2]) }

\* With Z dimension: z at the bottom or the top of the range of coordinates
InstInstants ==
  { [v |-> P3(x, y, z), t |-> RInt(1), hasz |-> hasz] :
      x \in InstCoords, y \in InstCoords,
      z \in {RInt(0), RInt(MaxInstCoord)}, hasz \in BOOLEAN }

\* Boxes without and with T dimension, the period starting at the time of
\* the instant
InstPeriods ==
  { [lower |-> RInt(1), upper |-> RInt(2), lower_inc |-> linc,
     upper_inc |-> TRUE] : linc \in BOOLEAN }

InstBoxes ==
  { [xmin |-> xr[1], xmax |-> xr[2], ymin |-> yr[1], ymax |-> yr[2],
     zmin |-> RInt(0), zmax |-> zhi, hasz |-> hasz,
     hast |-> per # NoPoint, period |-> per] :
      xr \in InstRanges, yr \in InstRanges,
      zhi \in {RInt(0), RInt(MaxInstCoord)}, hasz \in BOOLEAN,
      per \in InstPeriods \cup {NoPoint} }

InitInst ==
  /\ op = "inst"
  /\ pc = "call"
  /\ arg \in { a \in [inst : InstInstants, box : InstBoxes,
                      border_inc : BOOLEAN] :
                 \* without Z dimension z is not stored
                 /\ ~a.inst.hasz => a.inst.v.z = RInt(0)
                 /\ ~a.box.hasz => a.box.zmax = RInt(0) }
  /\ res = NoRes

\* tpointinst_restrict_stbox(inst, box, border_inc, REST_AT)
InstAtStbox ==
  /\ op = "inst" /\ pc = "call"
  /\ res' = tpointinst_restrict_stbox(arg.inst, arg.box, arg.border_inc, TRUE)
  /\ pc' = "at"
  /\ UNCHANGED <<op, arg>>

\* tpointinst_restrict_stbox(inst, box, border_inc, REST_MINUS)
InstMinusStbox ==
  /\ op = "inst" /\ pc = "call"
  /\ res' = tpointinst_restrict_stbox(arg.inst, arg.box, arg.border_inc, FALSE)
  /\ pc' = "minus"
  /\ UNCHANGED <<op, arg>>

NextInst == InstAtStbox \/ InstMinusStbox

SpecInst == InitInst /\ [][NextInst]_vars

(***************************************************************************)
(* Claims about the per-instant box test                                   *)
(***************************************************************************)
InstHasZ == arg.inst.hasz /\ arg.box.hasz

\* The instant passes the time restriction of the box, if any
InstInPeriod == arg.box.hast => contains_span_value(arg.box.period, arg.inst.t)

OnMaxEdge(p, box, hasz) ==
  p.x = box.xmax \/ p.y = box.ymax \/ (hasz /\ p.z = box.zmax)

OnMinEdge(p, box, hasz) ==
  p.x = box.xmin \/ p.y = box.ymin \/ (hasz /\ p.z = box.zmin)

\* At returned the instant
InstKept == res = arg.inst

\* C6 (as claimed): a point exactly on a maximum edge of the box, otherwise
\* within it, is kept by At when border_inclusive is true and dropped when it
\* is false; a point on a minimum edge of the box is kept by At in both modes,
\* whatever its other coordinates within the box and whatever the box's width.
C6_BorderSemantics ==
  (/\ op = "inst" /\ pc = "at" /\ InstInPeriod
   /\ InBoxClosed(arg.inst.v, arg.box, InstHasZ)) =>
    /\ OnMaxEdge(arg.inst.v, arg.box, InstHasZ) =>
         (InstKept <=> arg.border_inc)
    /\ OnMinEdge(arg.inst.v, arg.box, InstHasZ) => InstKept

\* C6 (amended): a point exactly on a maximum edge of the box, otherwise
\* within it, is kept by At when border_inclusive is true and dropped when it
\* is false; a point on a minimum edge of the box is kept by At when
\* border_inclusive is true, and when it is false exactly if the point lies
\* MEOS_EPSILON or more below every maximum edge of the box.
C6_BorderSemanticsOffMax ==
  (/\ op = "inst" /\ pc = "at" /\ InstInPeriod
   /\ InBoxClosed(arg.inst.v, arg.box, InstHasZ)) =>
    /\ OnMaxEdge(arg.inst.v, arg.box, InstHasZ) =>
         (InstKept <=> arg.border_inc)
    /\ OnMinEdge(arg.inst.v, arg.box, InstHasZ) =>
         (InstKept <=>
            (arg.border_inc \/ OffMaxBorder(arg.inst.v, arg.box, InstHasZ)))

\* C6 witness: with exclusive maximum borders, a point on the minimum x edge
\* and off the maximum edges was kept by At
C6_Witness ==
  /\ op = "inst" /\ pc = "at" /\ InstInPeriod /\ ~arg.border_inc
  /\ InBoxClosed(arg.inst.v, arg.box, InstHasZ)
  /\ arg.inst.v.x = arg.box.xmin
  /\ OffMaxBorder(arg.inst.v, arg.box, InstHasZ)
  /\ InstKept

(***************************************************************************)
(* Restriction of a step sequence to a geometry (with optional Z span and  *)
(* period) or to a box.  A geometry is the set of the 2D points it covers; *)
(* an absent Z span or period is Null.  Instants are records [v, t, hasz]  *)
(* with rational t.                                                        *)
(***************************************************************************)
\* geom_intersects2d(value, gs)
geom_intersects2d(v, gs) == [x |-> v.x, y |-> v.y] \in gs

\* span_set(lower, upper, lower_inc, upper_inc, ...)
span_set(lower, upper, lower_inc, upper_inc) ==
  [lower |-> lower, upper |-> upper, lower_inc |-> lower_inc,
   upper_inc |-> upper_inc]

\* inter_span_span(s1, s2, &result): [found, span]
inter_span_span(s1, s2) ==
  LET lower == IF RLt(s1.lower, s2.lower) THEN s2.lower ELSE s1.lower
      upper == IF RLt(s1.upper, s2.upper) THEN s1.upper ELSE s2.upper
      lower_inc == /\ (s1.lower = lower => s1.lower_inc)
                   /\ (s2.lower = lower => s2.lower_inc)
      upper_inc == /\ (s1.upper = upper => s1.upper_inc)
                   /\ (s2.upper = upper => s2.upper_inc)
  IN  [found |-> RLt(lower, upper) \/ (lower = upper /\ lower_inc /\ upper_inc),
       span |-> span_set(lower, upper, lower_inc, upper_inc)]

\* seq->period
seq_period(seq) ==
  span_set(InstN(seq.insts, 0).t, InstN(seq.insts, Len(seq.insts) - 1).t,
           seq.lower_inc, seq.upper_inc)

\* tinstant_make(value, temptype, t) for an instant of the sequence of inst
tinstant_make(value, inst, t) == [v |-> value, t |-> t, hasz |-> inst.hasz]

\* The validity tsequence_make requires of its arguments, for rational
\* timestamps
ValidSequenceR(s) ==
  /\ Len(s.insts) >= 1
  /\ Len(s.insts) = 1 => (s.lower_inc /\ s.upper_inc)
  /\ \A i \in 1 .. Len(s.insts) - 1 : RLt(s.insts[i].t, s.insts[i + 1].t)
  /\ (s.interp = STEP /\ ~s.upper_inc /\ Len(s.insts) > 1) =>
       datum_point_eq(s.insts[Len(s.insts) - 1].v, s.insts[Len(s.insts)].v)

\* A sequence set is the array of its sequences; NULL in place of a sequence
\* set is the empty array, which no sequence set is
NoSequenceSet == <<>>

\* tsequenceset_make_free(sequences, count, normalize): NULL for no sequence
tsequenceset_make_free(sequences, count) ==
  IF count = 0 THEN NoSequenceSet ELSE sequences

\* tsequence_to_tsequenceset(seq)
tsequence_to_tsequenceset(seq) == <<seq>>

\* tsegment_value_at_timestamp(inst1, inst2, interp, t): the value at t of the
\* segment from inst1 to inst2
tsegment_value_at_timestamp(inst1, inst2, interp, t) ==
  IF interp # LINEAR \/ inst1.v = inst2.v THEN inst1.v
  ELSE LET ratio == RDiv(RSub(t, inst1.t), RSub(inst2.t, inst1.t))
           at(c1, c2) == RAdd(c1, RMul(RSub(c2, c1), ratio))
       IN  P3(at(inst1.v.x, inst2.v.x), at(inst1.v.y, inst2.v.y),
              at(inst1.v.z, inst2.v.z))

\* The value of a continuous sequence at a timestamp t of its period;
\* before: the value just before t
tsequence_value_at(seq, t, before) ==
  LET n == Len(seq.insts)
      i == CHOOSE j \in 1 .. n :
             /\ RLe(seq.insts[j].t, t)
             /\ j < n => RLt(t, seq.insts[j + 1].t)
      k == IF before /\ seq.insts[i].t = t /\ i > 1 THEN i - 1 ELSE i
  IN  IF k = n THEN seq.insts[n].v
      ELSE tsegment_value_at_timestamp(seq.insts[k], seq.insts[k + 1],
             seq.interp, t)

\* tcontseq_at_period(seq, p): the part of a step or linear sequence in the
\* period p, Null when there is none
tcontseq_at_period(seq, p) ==
  LET inter == inter_span_span(seq_period(seq), p)
      lower == inter.span.lower
      upper == inter.span.upper
      first == tinstant_make(tsequence_value_at(seq, lower, FALSE),
                 seq.insts[1], lower)
      inner == SelectSeq(seq.insts,
                 LAMBDA inst : RLt(lower, inst.t) /\ RLt(inst.t, upper))
      last == tinstant_make(
                tsequence_value_at(seq, upper,
                  seq.interp = STEP /\ ~inter.span.upper_inc),
                seq.insts[1], upper)
  IN  IF ~inter.found THEN Null
      ELSE IF lower = upper THEN tsequence_make(<<first>>, TRUE, TRUE, seq.interp)
      ELSE tsequence_make(<<first>> \o inner \o <<last>>,
             inter.span.lower_inc, inter.span.upper_inc, seq.interp)

\* tsequenceset_time(ss): the periods of the sequences
tsequenceset_time(ss) == [i \in 1 .. Len(ss) |-> seq_period(ss[i])]

\* The periods of p that lie outside the periods ps[i .. ], p starting where
\* the period ps[i - 1] ended
RECURSIVE minus_span_spanset(_, _, _)
minus_span_spanset(p, ps, i) ==
  IF i > Len(ps) THEN <<p>>
  ELSE LET gap == inter_span_span(p,
                    span_set(p.lower, ps[i].lower, TRUE, ~ps[i].lower_inc))
           rest == inter_span_span(p,
                    span_set(ps[i].upper, p.upper, ~ps[i].upper_inc, TRUE))
       IN  (IF gap.found THEN <<gap.span>> ELSE <<>>)
           \o (IF rest.found THEN minus_span_spanset(rest.span, ps, i + 1)
               ELSE <<>>)

\* tcontseq_restrict_periodset(seq, ps, REST_MINUS): the parts of a step or
\* linear sequence outside the periods ps, Null when there is none
tcontseq_minus_periodset(seq, ps) ==
  LET gaps == minus_span_spanset(seq_period(seq), ps, 1)
  IN  IF gaps = <<>> THEN NoSequenceSet
      ELSE [i \in 1 .. Len(gaps) |-> tcontseq_at_period(seq, gaps[i])]

tpointinst_restrict_geom_time_iter(inst, gs, zspan, period, atfunc) ==
  IF period # Null /\ ~contains_span_value(period, inst.t) THEN ~atfunc
  ELSE IF zspan # Null /\ ~contains_span_value(zspan, inst.v.z) THEN ~atfunc
  ELSE IF ~geom_intersects2d(inst.v, gs) THEN ~atfunc
  ELSE atfunc

\* Mutant: the run is closed without the instant that continues its last
\* value
step_close_run_short(seq, instants, inst, period, timespan) ==
  tsequence_make(instants,
    IF InstN(instants, 0).t = InstN(seq.insts, 0).t THEN seq.lower_inc
    ELSE TRUE,
    TRUE, STEP)

\* The sequence made of the instants of a run when the instant inst fails
\* the test (if (k > 0) of the loop of tpointseq_step_at_geom_time_iter and
\* of tpointseq_step_at_stbox_iter); period is Null without restriction to
\* the time dimension
step_close_run(seq, instants, inst, period, timespan) ==
  LET k == Len(instants)
      last == InstN(instants, k - 1)
      extend == span_set(last.t, inst.t, TRUE, FALSE)
      inter == inter_span_span(timespan, extend)
      longer == period = Null
                  \/ (inter.found /\ inter.span.lower # inter.span.upper)
      upper_inc == period # Null /\ inter.found
                     /\ inter.span.lower = inter.span.upper
      instants1 == IF period = Null
                     THEN Append(instants, tinstant_make(last.v, last, inst.t))
                   ELSE IF longer
                     THEN Append(instants,
                            tinstant_make(last.v, last, inter.span.upper))
                   ELSE instants
      lower_inc == IF InstN(instants, 0).t = InstN(seq.insts, 0).t
                     THEN seq.lower_inc
                   ELSE TRUE
  IN  tsequence_make(instants1, lower_inc, upper_inc, STEP)

\* The sequence made of the remaining instants after the loop
step_last_run(seq, instants) ==
  LET k == Len(instants)
      lower_inc == IF InstN(instants, 0).t = InstN(seq.insts, 0).t
                     THEN seq.lower_inc
                   ELSE TRUE
      upper_inc == IF InstN(instants, k - 1).t
                        = InstN(seq.insts, Len(seq.insts) - 1).t
                     THEN seq.upper_inc
                   ELSE FALSE
  IN  tsequence_make(instants, lower_inc, upper_inc, STEP)

\* for (int i = 0; i < seq->count; i++) and the last sequence; passes[i + 1]
\* is the outcome of the test of the instant i, st = [instants, result]
RECURSIVE step_at_loop(_, _, _, _, _, _)
step_at_loop(seq, passes, period, timespan, i, st) ==
  IF i >= Len(seq.insts)
    THEN IF Len(st.instants) > 0
           THEN Append(st.result, step_last_run(seq, st.instants))
         ELSE st.result
  ELSE
    Only({ step_at_loop(seq, passes, period, timespan, i + 1, next) :
      next \in {
        IF passes[i + 1]
          THEN [st EXCEPT !.instants = Append(@, InstN(seq.insts, i))]
        ELSE IF Len(st.instants) > 0
          THEN [instants |-> <<>>,
                result |-> Append(st.result,
                  step_close_run(seq, st.instants, InstN(seq.insts, i),
                                 period, timespan))]
        ELSE st } })

\* Returns the sequences; *count is their number
tpointseq_step_at_geom_time_iter(seq, gs, zspan, period) ==
  LET inter == IF period # Null THEN inter_span_span(seq_period(seq), period)
               ELSE [found |-> TRUE, span |-> Null]
  IN  IF ~inter.found THEN <<>>
      ELSE step_at_loop(seq,
             [i \in 1 .. Len(seq.insts) |->
                tpointinst_restrict_geom_time_iter(seq.insts[i], gs, zspan,
                  period, TRUE)],
             period, inter.span, 0, [instants |-> <<>>, result |-> <<>>])

\* The result once the sequences of the restriction at are known.  A
\* sequence that tsequence_make rejected ended the function with an error,
\* whatever atfunc: the sequences with the rejected one stand for the error
step_restrict_result(seq, sequences, atfunc) ==
  IF Len(sequences) = 0
    THEN IF atfunc THEN NoSequenceSet ELSE tsequence_to_tsequenceset(seq)
  ELSE IF atfunc \/ \E i \in 1 .. Len(sequences) : ~ValidSequenceR(sequences[i])
    THEN tsequenceset_make_free(sequences, Len(sequences))
  ELSE tcontseq_minus_periodset(seq,
         tsequenceset_time(
           tsequenceset_make_free(sequences, Len(sequences))))

tpointseq_step_restrict_geom_time(seq, gs, zspan, period, atfunc) ==
  IF Len(seq.insts) = 1
    THEN IF tpointinst_restrict_geom_time_iter(InstN(seq.insts, 0), gs, zspan,
              period, atfunc)
           THEN tsequence_to_tsequenceset(seq)
         ELSE NoSequenceSet
  ELSE Only({ step_restrict_result(seq, sequences, atfunc) :
                sequences \in
                  { tpointseq_step_at_geom_time_iter(seq, gs, zspan, period) } })

tpointseq_step_at_stbox_iter(seq, box, border_inc) ==
  LET inter == IF box.hast THEN inter_span_span(seq_period(seq), box.period)
               ELSE [found |-> TRUE, span |-> Null]
  IN  IF ~inter.found THEN <<>>
      ELSE step_at_loop(seq,
             [i \in 1 .. Len(seq.insts) |->
                tpointinst_restrict_stbox_iter(seq.insts[i], box, border_inc,
                  TRUE)],
             IF box.hast THEN box.period ELSE Null, inter.span, 0,
             [instants |-> <<>>, result |-> <<>>])

tpointseq_step_restrict_stbox(seq, box, border_inc, atfunc) ==
  IF Len(seq.insts) = 1
    THEN IF tpointinst_restrict_stbox_iter(InstN(seq.insts, 0), box,
              border_inc, atfunc)
           THEN tsequence_to_tsequenceset(seq)
         ELSE NoSequenceSet
  ELSE Only({ step_restrict_result(seq, sequences, atfunc) :
                sequences \in
                  { tpointseq_step_at_stbox_iter(seq, box, border_inc) } })

(***************************************************************************)
(* Specification of the step restriction: a valid step sequence with the   *)
(* timestamps 1, 2, ... restricted at and minus a geometry or a box.       *)
(* Positions are EpsLen apart, and the boxes given are EpsLen wide or more.*)
(***************************************************************************)
StepValues ==
  { P3(RInt(0), RInt(0), RInt(0)), P3(RInt(EpsLen), RInt(0), RInt(0)),
    P3(RInt(2 * EpsLen), RInt(0), RInt(EpsLen)) }

StepSeqs ==
  { s \in UNION { [insts : { [i \in 1 .. n |->
                               [v |-> f[i], t |-> RInt(i), hasz |-> TRUE]] :
                               f \in [1 .. n -> StepValues] },
                   lower_inc : BOOLEAN, upper_inc : BOOLEAN,
                   interp : {STEP}] : n \in 1 .. MaxStepLen } :
      ValidSequenceR(s) }

\* Geometries covering any of the positions
StepGeoms == SUBSET { [x |-> v.x, y |-> v.y] : v \in StepValues }

StepZSpans == { Null, span_set(RInt(0), RInt(0), TRUE, TRUE) }

\* Periods with bounds at timestamps of the sequences and a period with
\* bounds strictly between them
StepPeriods ==
  { Null, span_set(RInt(1), RInt(2), TRUE, TRUE),
    span_set(RInt(2), RInt(3), FALSE, FALSE),
    span_set(Rat(3, 2), Rat(5, 2), TRUE, TRUE) }

\* Boxes without Z dimension, over the line of the positions
StepBoxes ==
  { [xmin |-> RInt(lo * EpsLen), xmax |-> RInt(hi * EpsLen),
     ymin |-> RInt(0), ymax |-> RInt(EpsLen),
     zmin |-> RInt(0), zmax |-> RInt(0), hasz |-> FALSE,
     hast |-> per # Null, period |-> per] :
      lo \in 0 .. 1, hi \in 1 .. 2, per \in StepPeriods }

InitStep ==
  /\ op = "step"
  /\ pc = "call"
  /\ \/ arg \in [seq : StepSeqs, to : {"geom"}, gs : StepGeoms,
                 zspan : StepZSpans, period : StepPeriods]
     \/ arg \in [seq : StepSeqs, to : {"box"}, box : StepBoxes,
                 border_inc : BOOLEAN]
  /\ res = NoRes

\* The sequences of the result, error when one of them was constructed with
\* arguments tsequence_make rejects
StepResult(r) ==
  [seqs |-> r,
   error |-> \E i \in 1 .. Len(r) : ~ValidSequenceR(r[i])]

\* tpointseq_step_restrict_geom_time(seq, gs, zspan, period, REST_AT)
StepAtGeom ==
  /\ op = "step" /\ pc = "call" /\ arg.to = "geom"
  /\ \E r \in { tpointseq_step_restrict_geom_time(arg.seq, arg.gs, arg.zspan,
                  arg.period, TRUE) } : res' = StepResult(r)
  /\ pc' = "at"
  /\ UNCHANGED <<op, arg>>

\* tpointseq_step_restrict_geom_time(seq, gs, zspan, period, REST_MINUS)
StepMinusGeom ==
  /\ op = "step" /\ pc = "call" /\ arg.to = "geom"
  /\ \E r \in { tpointseq_step_restrict_geom_time(arg.seq, arg.gs, arg.zspan,
                  arg.period, FALSE) } : res' = StepResult(r)
  /\ pc' = "minus"
  /\ UNCHANGED <<op, arg>>

\* tpointseq_step_restrict_stbox(seq, box, border_inc, REST_AT)
StepAtStbox ==
  /\ op = "step" /\ pc = "call" /\ arg.to = "box"
  /\ \E r \in { tpointseq_step_restrict_stbox(arg.seq, arg.box,
                  arg.border_inc, TRUE) } : res' = StepResult(r)
  /\ pc' = "at"
  /\ UNCHANGED <<op, arg>>

\* tpointseq_step_restrict_stbox(seq, box, border_inc, REST_MINUS)
StepMinusStbox ==
  /\ op = "step" /\ pc = "call" /\ arg.to = "box"
  /\ \E r \in { tpointseq_step_restrict_stbox(arg.seq, arg.box,
                  arg.border_inc, FALSE) } : res' = StepResult(r)
  /\ pc' = "minus"
  /\ UNCHANGED <<op, arg>>

NextStep == StepAtGeom \/ StepMinusGeom \/ StepAtStbox \/ StepMinusStbox

SpecStep == InitStep /\ [][NextStep]_vars

(***************************************************************************)
(* Time extents over rational timestamps.  Given the set B of the          *)
(* timestamps in play, time is cut into atoms: <<b, 0>> is the timestamp   *)
(* b, and <<b, 1>> the open interval from b to the next timestamp of B.    *)
(***************************************************************************)
SpanAtomsR(span, B) ==
  { <<b, 0>> : b \in { c \in B : contains_span_value(span, c) } }
    \cup { <<b, 1>> : b \in { c \in B : RLe(span.lower, c)
                                        /\ RLt(c, span.upper) } }

\* The time extent of a sequence: its timestamps when discrete, its period
\* otherwise
TimeOfSeqR(seq, B) ==
  IF seq.interp = DISCRETE
    THEN { <<seq.insts[i].t, 0>> : i \in 1 .. Len(seq.insts) }
  ELSE SpanAtomsR(seq_period(seq), B)

\* The time extent of a sequence set, empty for NoSequenceSet
TimeOfSeqsR(ss, B) == UNION { TimeOfSeqR(ss[i], B) : i \in 1 .. Len(ss) }

TimestampsOfSeqs(ss) ==
  UNION { { ss[i].insts[j].t : j \in 1 .. Len(ss[i].insts) } :
            i \in 1 .. Len(ss) }

(***************************************************************************)
(* Claims about the step restriction                                       *)
(***************************************************************************)
\* No restriction to the time dimension
StepNoTime ==
  IF arg.to = "geom" THEN arg.period = Null ELSE ~arg.box.hast

\* The position v is inside the region
StepInside(v) ==
  IF arg.to = "geom"
    THEN /\ [x |-> v.x, y |-> v.y] \in arg.gs
         /\ arg.zspan # Null =>
              (RLe(arg.zspan.lower, v.z) /\ RLe(v.z, arg.zspan.upper))
  ELSE InsideBox(v, arg.box, FALSE, arg.border_inc)

StepPass(i) == StepInside(arg.seq.insts[i].v)

\* The maximal runs a .. b of consecutive instants inside the region
StepRuns ==
  LET n == Len(arg.seq.insts)
  IN  { r \in (1 .. n) \X (1 .. n) :
          /\ r[1] <= r[2]
          /\ \A i \in r[1] .. r[2] : StepPass(i)
          /\ r[1] = 1 \/ ~StepPass(r[1] - 1)
          /\ r[2] = n \/ ~StepPass(r[2] + 1) }

\* The fragment of the run a .. b: closed at the timestamp of the failing
\* instant b + 1 with the value of b, or ending with the sequence
RunFragment(a, b) ==
  LET seq == arg.seq
      n == Len(seq.insts)
      run == SubSeq(seq.insts, a, b)
  IN  [insts |-> IF b < n
                   THEN Append(run, [seq.insts[b] EXCEPT !.t = seq.insts[b + 1].t])
                 ELSE run,
       lower_inc |-> IF a = 1 THEN seq.lower_inc ELSE TRUE,
       upper_inc |-> IF b < n THEN FALSE ELSE seq.upper_inc,
       interp |-> STEP]

\* The times of the sequence at which the value held is inside the region
StepInsideTimes ==
  LET seq == arg.seq
      n == Len(seq.insts)
  IN  { <<seq.insts[i].t, 0>> :
          i \in { j \in 1 .. n : /\ StepPass(j)
                                 /\ j = 1 => seq.lower_inc
                                 /\ j = n => seq.upper_inc } }
        \cup { <<seq.insts[i].t, 1>> : i \in { j \in 1 .. n - 1 : StepPass(j) } }

\* C9: for a step sequence restricted at a geometry or a box with no time
\* restriction, each maximal run of consecutive instants passing the test
\* yields one step fragment that starts at the run's first instant and ends,
\* exclusive, at the timestamp of the next failing instant holding the run's
\* last value; a run reaching the last instant ends there with the upper flag
\* of the sequence; the result covers exactly the times at which the value
\* held is inside the region.
C9_StepRunsAt ==
  (op = "step" /\ pc = "at" /\ StepNoTime) =>
    /\ ~res.error
    /\ Len(res.seqs) = Cardinality(StepRuns)
    /\ \A r \in StepRuns :
         \E i \in 1 .. Len(res.seqs) : res.seqs[i] = RunFragment(r[1], r[2])
    /\ \A i \in 1 .. Len(res.seqs) - 1 :
         RLe(res.seqs[i].insts[Len(res.seqs[i].insts)].t,
             res.seqs[i + 1].insts[1].t)
    /\ TimeOfSeqsR(res.seqs, TimestampsOfSeqs(<<arg.seq>>)) = StepInsideTimes

\* C9 witness: the first instant passes, the second fails and the last
\* passes; the restriction at returned the first value held up to the second
\* timestamp, exclusive, and the last instant
C9_Witness ==
  /\ op = "step" /\ pc = "at" /\ StepNoTime
  /\ Len(arg.seq.insts) = 3
  /\ StepPass(1) /\ ~StepPass(2) /\ StepPass(3)
  /\ Len(res.seqs) = 2
  /\ Len(res.seqs[1].insts) = 2
  /\ res.seqs[1].insts[2].v = arg.seq.insts[1].v
  /\ res.seqs[1].insts[2].t = arg.seq.insts[2].t
  /\ ~res.seqs[1].upper_inc
  /\ res.seqs[2].insts = <<arg.seq.insts[3]>>

\* The period the restriction is limited to
StepPeriod == IF arg.to = "geom" THEN arg.period ELSE arg.box.period

\* The timestamps in play for the restriction of arg.seq to the period
StepTimestamps ==
  TimestampsOfSeqs(<<arg.seq>>) \cup TimestampsOfSeqs(res.seqs)
    \cup {StepPeriod.lower, StepPeriod.upper}

\* The value the step sequence holds at the time t of its period: that of
\* its last instant not after t
StepValueAt(t) ==
  LET held == { i \in 1 .. Len(arg.seq.insts) : RLe(arg.seq.insts[i].t, t) }
  IN  arg.seq.insts[CHOOSE i \in held : \A j \in held : j <= i].v

\* The times of the sequence within the period at which the value held is
\* inside the region
StepInsideTimesIn ==
  { a \in SpanAtomsR(seq_period(arg.seq), StepTimestamps)
             \cap SpanAtomsR(StepPeriod, StepTimestamps) :
      StepInside(StepValueAt(a[1])) }

\* C15 (as claimed): for a step sequence restricted at a geometry with a
\* period, or at a box with T dimension, the time extent of the result is
\* exactly the set of the times of the period of the sequence and of the
\* period given at which the value held passes the spatial test: a passing
\* run extends to the upper edge of the period, that edge included when it is
\* inclusive and strictly before the next instant, and the stretch from a
\* lower edge strictly between two instants to the next instant is part of
\* the result.
C15_StepAtPeriodExtent ==
  (op = "step" /\ pc = "at" /\ ~StepNoTime) =>
    /\ ~res.error
    /\ TimeOfSeqsR(res.seqs, StepTimestamps) = StepInsideTimesIn

(***************************************************************************)
(* Restriction of a linear sequence to a box.  Timestamps are exact        *)
(* rationals: the truncation of a located timestamp to a whole microsecond *)
(* is not modelled.  junk = [t, inc] is what the uninitialized variables   *)
(* t1, t2, p3_inc, p4_inc of tpointseq_linear_at_stbox_xyz hold.           *)
(***************************************************************************)
\* datum_point_eq on two values of given dimensionality
point_eq_dims(v1, hasz1, v2, hasz2) == hasz1 = hasz2 /\ datum_point_eq(v1, v2)

\* tpoint_force2d(inst)
tpoint_force2d(inst) ==
  [inst EXCEPT !.v = P3(inst.v.x, inst.v.y, RInt(0)), !.hasz = FALSE]

\* geosegm_locate_point(start, end, point, &dist): the fraction of the
\* segment at which its point closest to point lies, and the square of
\* their distance; hasz is the dimensionality of start
geosegm_locate_point(p1, p2, p, hasz) ==
  LET dot(a, b) ==
        RAdd(RAdd(RMul(a.x, b.x), RMul(a.y, b.y)),
             IF hasz THEN RMul(a.z, b.z) ELSE RInt(0))
      diff(a, b) == P3(RSub(a.x, b.x), RSub(a.y, b.y), RSub(a.z, b.z))
  IN  Only({ Only({ Only({ Only({ [fraction |-> r, dist2 |-> dot(e, e)] :
        e \in { diff(p, P3(RAdd(p1.x, RMul(r, d.x)), RAdd(p1.y, RMul(r, d.y)),
                           RAdd(p1.z, RMul(r, d.z)))) } }) :
        r \in { IF len2 = RInt(0) \/ RLt(r0, RInt(0)) THEN RInt(0)
                ELSE IF RLt(RInt(1), r0) THEN RInt(1) ELSE r0 } }) :
        <<len2, r0>> \in { <<dot(d, d),
                              IF dot(d, d) = RInt(0) THEN RInt(0)
                              ELSE RDiv(dot(diff(p, p1), d), dot(d, d))>> } }) :
        d \in { diff(p2, p1) } })

\* Returns [found, t]; t keeps t0 when the value is not found
tpointsegm_timestamp_at_value1(inst1, inst2, value, valhasz, t0) ==
  IF point_eq_dims(inst1.v, inst1.hasz, value, valhasz)
    THEN [found |-> TRUE, t |-> inst1.t]
  ELSE IF point_eq_dims(inst2.v, inst2.hasz, value, valhasz)
    THEN [found |-> TRUE, t |-> inst2.t]
  ELSE Only({ IF RLe(RInt(EpsLen * EpsLen), loc.dist2)
                THEN [found |-> FALSE, t |-> t0]
              ELSE [found |-> TRUE,
                    t |-> RAdd(inst1.t,
                            RMul(RSub(inst2.t, inst1.t), loc.fraction))] :
                loc \in { geosegm_locate_point(inst1.v, inst2.v, value,
                            inst1.hasz) } })

\* The sequence made of the clipped segment once the timestamps t1 and t2 of
\* the clipped points are known
linear_clipped_fragment(inst1, inst2, t1, t2, lower_inc, upper_inc) ==
  LET inter1 == IF t1 # inst1.t
                  THEN tsegment_value_at_timestamp(inst1, inst2, LINEAR, t1)
                ELSE inst1.v
      inter2 == IF t2 # inst2.t
                  THEN tsegment_value_at_timestamp(inst1, inst2, LINEAR, t2)
                ELSE inst2.v
  IN  IF t1 # t2 \/ t1 # inst2.t \/ upper_inc
        THEN IF ~datum_point_eq(inter1, inter2)
               THEN <<tsequence_make(<<tinstant_make(inter1, inst1, t1),
                                       tinstant_make(inter2, inst1, t2)>>,
                        lower_inc, upper_inc, LINEAR)>>
             ELSE <<tsequence_make(<<tinstant_make(inter1, inst1, t1)>>,
                      TRUE, TRUE, LINEAR)>>
      ELSE <<>>

\* if (hasz_seq && ! hasz) ... else ...: the two instants handed to
\* tpointsegm_timestamp_at_value1 to locate the clipped points p3 and p4
linear_located_on(inst1, inst2, hasz) ==
  IF inst1.hasz /\ ~hasz THEN <<tpoint_force2d(inst1), inst2>>
  ELSE <<inst1, inst2>>

\* if (found) of a non-constant segment: the sequences added to result
linear_clipped(inst1, inst2, clip, hasz, border_inc, lower_inc, upper_inc, junk) ==
  IF ~clip.found THEN <<>>
  ELSE
    Only({ Only({ linear_clipped_fragment(inst1, inst2, tt[1].t, tt[2].t,
                    IF border_inc THEN lower_inc ELSE lower_inc /\ clip.p3_inc,
                    IF border_inc THEN upper_inc ELSE upper_inc /\ clip.p4_inc) :
                    tt \in { <<tpointsegm_timestamp_at_value1(on[1], on[2],
                                 clip.p3, hasz, junk.t),
                               tpointsegm_timestamp_at_value1(on[1], on[2],
                                 clip.p4, hasz, junk.t)>> } }) :
             on \in { linear_located_on(inst1, inst2, hasz) } })

\* One pass of the for loop of tpointseq_linear_at_stbox_xyz, for the
\* segment from the instant i - 1 to the instant i: the sequences added
linear_segment_at(seq, i, box, border_inc, junk) ==
  LET count == Len(seq.insts)
      inst1 == InstN(seq.insts, i - 1)
      inst2 == InstN(seq.insts, i)
      hasz == inst1.hasz /\ box.hasz
      lower_inc == IF i = 1 THEN seq.lower_inc ELSE TRUE
      upper_inc == IF i = count - 1 THEN seq.upper_inc ELSE FALSE
      z == IF hasz THEN inst1.v.z ELSE RInt(0)
      code == computeCode(inst1.v.x, inst1.v.y, z, hasz, box)
      max_code == IF ~border_inc
                    THEN computeMaxBorderCode(inst1.v.x, inst1.v.y, z, hasz,
                                              box)
                  ELSE 0
  IN  IF datum_point_eq(inst1.v, inst2.v)
        THEN IF code = 0 /\ max_code = 0
               THEN <<tsequence_make(<<inst1, inst2>>, lower_inc, upper_inc,
                        LINEAR)>>
             ELSE <<>>
      ELSE Only({ linear_clipped(inst1, inst2, clip, hasz, border_inc,
                    lower_inc, upper_inc, junk) :
                    clip \in { cohenSutherlandClip(inst1.v, inst2.v, box,
                                 hasz, border_inc,
                                 [found |-> FALSE, p3 |-> NoPoint,
                                  p4 |-> NoPoint, p3_inc |-> junk.inc,
                                  p4_inc |-> junk.inc]) } })

\* for (int i = 1; i < seq->count; i++)
RECURSIVE linear_at_loop(_, _, _, _, _, _)
linear_at_loop(seq, box, border_inc, junk, i, result) ==
  IF i >= Len(seq.insts) THEN result
  ELSE Only({ linear_at_loop(seq, box, border_inc, junk, i + 1, next) :
                next \in { result \o linear_segment_at(seq, i, box,
                                       border_inc, junk) } })

\* Returns [null, seqs]: null when the array returned is NULL, otherwise
\* seqs are its sequences and *count their number
tpointseq_linear_at_stbox_xyz(seq, box, border_inc, junk) ==
  IF Len(seq.insts) = 1
    THEN IF tpointinst_restrict_stbox_iter(InstN(seq.insts, 0), box,
              border_inc, TRUE)
           THEN [null |-> FALSE, seqs |-> <<seq>>]
         ELSE [null |-> TRUE, seqs |-> <<>>]
  ELSE [null |-> FALSE,
        seqs |-> linear_at_loop(seq, box, border_inc, junk, 1, <<>>)]

tpointseq_linear_at_stbox_iter(seq, box, border_inc, junk) ==
  IF Len(seq.insts) = 1
    THEN IF tpointinst_restrict_stbox_iter(InstN(seq.insts, 0), box,
              border_inc, TRUE)
           THEN [null |-> FALSE, seqs |-> <<seq>>]
         ELSE [null |-> TRUE, seqs |-> <<>>]
  ELSE IF ~box.hast
    THEN tpointseq_linear_at_stbox_xyz(seq, box, border_inc, junk)
  ELSE Only({ IF seq_t = Null THEN [null |-> TRUE, seqs |-> <<>>]
              ELSE tpointseq_linear_at_stbox_xyz(seq_t, box, border_inc, junk) :
                seq_t \in { tcontseq_at_period(seq, box.period) } })

\* The result once the sequences of the restriction at are known.  Returns
\* [seqs, crash]; ub is the outcome of tsequenceset_time on a NULL sequence
\* set: the process ends ("crash") or no period is read ("empty").  A
\* sequence that tsequence_make rejected ended the function with an error,
\* whatever atfunc: the sequences with the rejected one stand for the error
linear_restrict_result(seq, r, atfunc, ub) ==
  IF r.null
    THEN [seqs |-> IF atfunc THEN NoSequenceSet
                   ELSE tsequence_to_tsequenceset(seq),
          crash |-> FALSE]
  ELSE IF atfunc \/ \E i \in 1 .. Len(r.seqs) : ~ValidSequenceR(r.seqs[i])
    THEN [seqs |-> tsequenceset_make_free(r.seqs, Len(r.seqs)),
          crash |-> FALSE]
  ELSE IF tsequenceset_make_free(r.seqs, Len(r.seqs)) = NoSequenceSet
    THEN IF ub = "crash" THEN [seqs |-> NoSequenceSet, crash |-> TRUE]
         ELSE [seqs |-> tcontseq_minus_periodset(seq, <<>>), crash |-> FALSE]
  ELSE [seqs |-> tcontseq_minus_periodset(seq,
                   tsequenceset_time(
                     tsequenceset_make_free(r.seqs, Len(r.seqs)))),
        crash |-> FALSE]

tpointseq_linear_restrict_stbox(seq, box, border_inc, atfunc, junk, ub) ==
  Only({ linear_restrict_result(seq, r, atfunc, ub) :
           r \in { tpointseq_linear_at_stbox_iter(seq, box, border_inc, junk) } })

(***************************************************************************)
(* Specification: a linear sequence is restricted at a box, then minus the *)
(* same box                                                                *)
(***************************************************************************)
\* Coordinates far apart with respect to MEOS_EPSILON
LinStep == 2 * EpsLen

\* The points of a diagonal and the corner below its end
LinPoints ==
  { P3(RInt(k * LinStep), RInt(k * LinStep), RInt(0)) : k \in 0 .. MaxLinCoord }
    \cup { P3(RInt(MaxLinCoord * LinStep), RInt(0), RInt(0)) }

LinSeqs ==
  { s \in UNION { [insts : { [i \in 1 .. n |->
                               [v |-> f[i], t |-> RInt(i),
                                hasz |-> FALSE]] :
                               f \in [1 .. n -> LinPoints] },
                   lower_inc : BOOLEAN, upper_inc : BOOLEAN,
                   interp : {LINEAR}] : n \in 1 .. MaxLinLen } :
      ValidSequenceR(s) }

LinPeriods == { Null, span_set(RInt(1), RInt(2), FALSE, TRUE) }

\* A box strictly between the coordinates and a box with coordinates on its
\* borders
LinBoxes ==
  { [xmin |-> RInt(lo), xmax |-> RInt(lo + LinStep),
     ymin |-> RInt(lo), ymax |-> RInt(lo + LinStep),
     zmin |-> RInt(0), zmax |-> RInt(0), hasz |-> FALSE,
     hast |-> per # Null, period |-> per] :
      lo \in {0, EpsLen}, per \in LinPeriods }

\* What the uninitialized variables may hold
LinJunk ==
  { [t |-> RInt(0), inc |-> FALSE], [t |-> RInt(1), inc |-> TRUE] }

InitLinBox ==
  /\ op = "linbox"
  /\ pc = "call"
  /\ arg \in [seq : LinSeqs, box : LinBoxes, border_inc : BOOLEAN]
  /\ res = NoRes

\* tpointseq_linear_restrict_stbox(seq, box, border_inc, REST_AT)
LinAtStbox ==
  /\ op = "linbox" /\ pc = "call"
  /\ \E junk \in LinJunk :
       \E r \in { tpointseq_linear_restrict_stbox(arg.seq, arg.box,
                    arg.border_inc, TRUE, junk, "crash") } :
         res' = [at |-> r.seqs,
                 error |-> \E i \in 1 .. Len(r.seqs) :
                             ~ValidSequenceR(r.seqs[i]),
                 minus |-> NoSequenceSet, crash |-> FALSE]
  /\ pc' = "at"
  /\ UNCHANGED <<op, arg>>

\* tpointseq_linear_restrict_stbox(seq, box, border_inc, REST_MINUS), of the
\* arguments restricted at before
LinMinusStbox ==
  /\ op = "linbox" /\ pc = "at"
  /\ \E junk \in LinJunk, ub \in {"crash", "empty"} :
       \E r \in { tpointseq_linear_restrict_stbox(arg.seq, arg.box,
                    arg.border_inc, FALSE, junk, ub) } :
         res' = [res EXCEPT !.minus = r.seqs, !.crash = r.crash]
  /\ pc' = "minus"
  /\ UNCHANGED <<op, arg>>

NextLinBox == LinAtStbox \/ LinMinusStbox

SpecLinBox == InitLinBox /\ [][NextLinBox]_vars

(***************************************************************************)
(* Claims about the restriction of a linear sequence to a box              *)
(***************************************************************************)
\* The fractions of the segment from p to q, along one axis, at which the
\* coordinate lies in [lo, hi]: [ok, from, to]
AxisRange(p, q, lo, hi) ==
  IF p = q
    THEN [ok |-> RLe(lo, p) /\ RLe(p, hi), from |-> RInt(0), to |-> RInt(1)]
  ELSE LET a == RDiv(RSub(lo, p), RSub(q, p))
           b == RDiv(RSub(hi, p), RSub(q, p))
           from == IF RLt(a, b) THEN a ELSE b
           to == IF RLt(a, b) THEN b ELSE a
       IN  [ok |-> RLe(from, RInt(1)) /\ RLe(RInt(0), to),
            from |-> IF RLt(from, RInt(0)) THEN RInt(0) ELSE from,
            to |-> IF RLt(RInt(1), to) THEN RInt(1) ELSE to]

\* The part of the segment from inst1 to inst2 within the closed box, on
\* the x and y axes: [ok, from, to], from and to being timestamps
SegmentInBox(inst1, inst2, box) ==
  LET rx == AxisRange(inst1.v.x, inst2.v.x, box.xmin, box.xmax)
      ry == AxisRange(inst1.v.y, inst2.v.y, box.ymin, box.ymax)
      from == IF RLt(rx.from, ry.from) THEN ry.from ELSE rx.from
      to == IF RLt(rx.to, ry.to) THEN rx.to ELSE ry.to
      at(r) == RAdd(inst1.t, RMul(RSub(inst2.t, inst1.t), r))
  IN  [ok |-> rx.ok /\ ry.ok /\ RLe(from, to), from |-> at(from),
       to |-> at(to)]

\* The timestamps in play for the restriction of arg.seq to arg.box
LinTimestamps ==
  TimestampsOfSeqs(<<arg.seq>>) \cup TimestampsOfSeqs(res.at)
    \cup TimestampsOfSeqs(res.minus)
    \cup { SegmentInBox(arg.seq.insts[i], arg.seq.insts[i + 1], arg.box).from :
             i \in 1 .. Len(arg.seq.insts) - 1 }
    \cup { SegmentInBox(arg.seq.insts[i], arg.seq.insts[i + 1], arg.box).to :
             i \in 1 .. Len(arg.seq.insts) - 1 }

\* The non-constant segments of arg.seq that cross the box, entering and
\* leaving it strictly inside the period of the sequence
LinCrossings ==
  { i \in 1 .. Len(arg.seq.insts) - 1 :
      /\ arg.seq.insts[i].v # arg.seq.insts[i + 1].v
      /\ LET c == SegmentInBox(arg.seq.insts[i], arg.seq.insts[i + 1], arg.box)
         IN  /\ c.ok
             /\ RLt(seq_period(arg.seq).lower, c.from)
             /\ RLt(c.to, seq_period(arg.seq).upper) }

\* C8 (as claimed): for a linear sequence restricted At a box with
\* border_inclusive true, every non-constant segment that crosses the box
\* contributes a linear fragment from the entry time to the exit time, both
\* ends included in the result whenever the entry and exit points lie
\* strictly inside the period of the sequence, for every segment of the
\* sequence and whatever the bound flags of the sequence.
C8_CrossingEndsIncluded ==
  (op = "linbox" /\ pc = "at" /\ arg.border_inc /\ ~arg.box.hast) =>
    \A i \in LinCrossings :
      LET c == SegmentInBox(arg.seq.insts[i], arg.seq.insts[i + 1], arg.box)
      IN  SpanAtomsR(span_set(c.from, c.to, TRUE, TRUE), LinTimestamps)
            \subseteq TimeOfSeqsR(res.at, LinTimestamps)

(***************************************************************************)
(* Restriction of a linear sequence to a geometry.  A geometry is the set  *)
(* of its points [x, y] (a point or multipoint), so that the intersection  *)
(* of a trajectory with it is a point or a multipoint.  The splitter works *)
(* on grid coordinates and whole timestamps: the sequences given have      *)
(* their positions on the grid.                                            *)
(***************************************************************************)
\* Box steps per grid step
GridRatio == BoxDen \div GridDen

\* The argument of tpointseq_make_simple in the coordinates of the splitter
grid_sequence(seq) ==
  [insts |-> [i \in 1 .. Len(seq.insts) |->
                [v |-> Pt(seq.insts[i].v.x[1] \div GridRatio,
                          seq.insts[i].v.y[1] \div GridRatio),
                 t |-> seq.insts[i].t[1]]],
   lower_inc |-> seq.lower_inc, upper_inc |-> seq.upper_inc,
   interp |-> seq.interp]

\* A fragment returned by tpointseq_make_simple in the coordinates of the
\* restriction
box_sequence(frag) ==
  [insts |-> [i \in 1 .. Len(frag.insts) |->
                [v |-> P3(RInt(frag.insts[i].v.x * GridRatio),
                          RInt(frag.insts[i].v.y * GridRatio), RInt(0)),
                 t |-> RInt(frag.insts[i].t), hasz |-> FALSE]],
   lower_inc |-> frag.lower_inc, upper_inc |-> frag.upper_inc,
   interp |-> frag.interp]

\* tpoint_force2d(seq)
tpointseq_force2d(seq) ==
  [seq EXCEPT !.insts = [i \in 1 .. Len(seq.insts) |->
                           tpoint_force2d(seq.insts[i])]]

\* The least and the greatest of a non-empty set of rationals
MinR(S) == CHOOSE m \in S : \A o \in S : RLe(m, o)
MaxR(S) == CHOOSE m \in S : \A o \in S : RLe(o, m)

\* The order of spanarr_sort: by lower bound, then by upper bound
span_le(a, b) ==
  \/ RLt(a.lower, b.lower)
  \/ a.lower = b.lower /\ a.lower_inc /\ ~b.lower_inc
  \/ /\ a.lower = b.lower /\ a.lower_inc = b.lower_inc
     /\ \/ RLt(a.upper, b.upper)
        \/ a.upper = b.upper /\ (b.upper_inc \/ ~a.upper_inc)

\* spanarr_sort of the spans of a set
RECURSIVE spanarr_sort(_)
spanarr_sort(S) ==
  IF S = {} THEN <<>>
  ELSE LET first == CHOOSE a \in S : \A b \in S : span_le(a, b)
       IN  <<first>> \o spanarr_sort(S \ {first})

\* The spans of a sorted array from the i-th on, overlapping and adjacent
\* spans merged
RECURSIVE spans_merge(_, _)
spans_merge(sorted, i) ==
  IF i > Len(sorted) THEN <<>>
  ELSE IF i = Len(sorted) THEN <<sorted[i]>>
  ELSE LET a == sorted[i]
           b == sorted[i + 1]
           joined == \/ RLt(b.lower, a.upper)
                     \/ b.lower = a.upper /\ (a.upper_inc \/ b.lower_inc)
           upper == IF RLt(a.upper, b.upper) THEN b.upper ELSE a.upper
           upper_inc == \/ a.upper = upper /\ a.upper_inc
                        \/ b.upper = upper /\ b.upper_inc
       IN  IF joined
             THEN spans_merge(
                    [sorted EXCEPT ![i + 1] =
                       span_set(a.lower, upper, a.lower_inc, upper_inc)],
                    i + 1)
           ELSE <<a>> \o spans_merge(sorted, i + 1)

\* spanarr_normalize(spans, count, SORT, &newcount) and
\* spanset_make_free(spans, count, NORMALIZE), of the spans of a set
spanarr_normalize(S) == spans_merge(spanarr_sort(S), 1)

\* The point p is on the segment from a to b, in 2D
point_on_segment(p, a, b) ==
  /\ RSub(RMul(RSub(b.x, a.x), RSub(p.y, a.y)),
          RMul(RSub(b.y, a.y), RSub(p.x, a.x))) = RInt(0)
  /\ RLe(MinR({a.x, b.x}), p.x) /\ RLe(p.x, MaxR({a.x, b.x}))
  /\ RLe(MinR({a.y, b.y}), p.y) /\ RLe(p.y, MaxR({a.y, b.y}))

\* geom_intersection2d(tpointseq_cont_trajectory(seq), gs): the points of
\* the geometry on the trajectory of the sequence
geom_intersection2d(seq, gs) ==
  { p \in gs :
      \/ \E i \in 1 .. Len(seq.insts) : geom_intersects2d(seq.insts[i].v, {p})
      \/ \E i \in 1 .. Len(seq.insts) - 1 :
           point_on_segment(p, seq.insts[i].v, seq.insts[i + 1].v) }

\* Returns [found, t]: found FALSE is elog(ERROR, ...)
tpointseq_timestamp_at_value(seq, value, valhasz) ==
  Only({ IF \A i \in DOMAIN at : ~at[i].found
           THEN [found |-> FALSE, t |-> RInt(0)]
         ELSE at[CHOOSE i \in DOMAIN at :
                   at[i].found /\ \A j \in 1 .. i - 1 : ~at[j].found] :
           at \in { [i \in 1 .. Len(seq.insts) - 1 |->
                      tpointsegm_timestamp_at_value1(seq.insts[i],
                        seq.insts[i + 1], value, valhasz, RInt(0))] } })

\* A geometry returned by geom_intersection2d is [type, points, geoms]: the
\* type of liblwgeom, the points of a point, line or polygon and the members
\* of a collection.  lwgeom_as_lwcollection returns the geometry for these
\* types and NULL for the other ones
lwgeom_is_collection(type) ==
  type \in {"MULTIPOINTTYPE", "MULTILINETYPE", "MULTIPOLYGONTYPE",
            "COLLECTIONTYPE"}

\* The geometry of the points of a set: a point, or a multipoint of two or
\* more points
RECURSIVE lwpoints_of(_)
lwpoints_of(S) ==
  IF S = {} THEN <<>>
  ELSE LET p == CHOOSE q \in S :
                  \A o \in S : RLt(q.x, o.x) \/ (q.x = o.x /\ RLe(q.y, o.y))
       IN  <<[type |-> "POINTTYPE", points |-> <<p>>, geoms |-> <<>>]>>
             \o lwpoints_of(S \ {p})

geo_collect(S) ==
  IF Cardinality(S) = 1 THEN lwpoints_of(S)[1]
  ELSE [type |-> "MULTIPOINTTYPE", points |-> <<>>, geoms |-> lwpoints_of(S)]

\* One pass of the for loop of tpointseq_interperiods, for an intersection
\* of the given type: geom is what lwpoint_inter (for a point) or
\* lwline_inter (otherwise) points to, Null for NULL.  Returns
\* [periods, error, ub]: error is the elog(ERROR, ...) of
\* tpointseq_timestamp_at_value, ub the dereference of the NULL pointer
interperiods_pass(seq, type, geom, ends) ==
  IF type # "POINTTYPE" /\ geom = Null
    THEN [periods |-> {}, error |-> FALSE, ub |-> TRUE]
  ELSE Only({
    IF \E i \in DOMAIN at : ~at[i].found
      THEN [periods |-> {}, error |-> TRUE, ub |-> FALSE]
    ELSE IF at[1].t = at[Len(at)].t
      THEN [periods |->
              IF /\ seq.lower_inc \/ RLt(ends[1].t, at[1].t)
                 /\ seq.upper_inc \/ RLt(at[1].t, ends[2].t)
                THEN {span_set(at[1].t, at[1].t, TRUE, TRUE)}
              ELSE {},
            error |-> FALSE, ub |-> FALSE]
    ELSE [periods |->
            { span_set(lower1, upper1,
                IF lower1 = ends[1].t THEN seq.lower_inc ELSE TRUE,
                IF upper1 = ends[2].t THEN seq.upper_inc ELSE TRUE) :
                <<lower1, upper1>> \in
                  { IF RLt(at[1].t, at[2].t) THEN <<at[1].t, at[2].t>>
                    ELSE <<at[2].t, at[1].t>> } },
          error |-> FALSE, ub |-> FALSE] :
      at \in { [i \in 1 .. (IF type = "POINTTYPE" THEN 1 ELSE 2) |->
                 tpointseq_timestamp_at_value(seq,
                   P3(geom.points[IF i = 1 THEN 1 ELSE Len(geom.points)].x,
                      geom.points[IF i = 1 THEN 1 ELSE Len(geom.points)].y,
                      RInt(0)), FALSE)] } })

\* Returns [periods, error, ub]: the periods as a set, before they are
\* sorted and normalized, of the passes up to the first one that raised the
\* error or dereferenced NULL
tpointseq_interperiods(seq, gsinter) ==
  LET single == gsinter.type \in {"POINTTYPE", "LINETYPE"}
      countinter == IF single THEN 1 ELSE Len(gsinter.geoms)
      type(i) == IF countinter > 1 THEN gsinter.geoms[i].type ELSE gsinter.type
      geom(i) == IF countinter > 1
                   THEN IF gsinter.geoms[i].type \in {"POINTTYPE", "LINETYPE"}
                          THEN gsinter.geoms[i]
                        ELSE Null
                 ELSE IF single THEN gsinter ELSE Null
  IN  Only({ IF Len(seq.insts) = 2 /\ datum_point_eq(ends[1].v, ends[2].v)
               THEN [periods |-> {seq_period(seq)}, error |-> FALSE,
                     ub |-> FALSE]
             ELSE IF ~single /\ ~lwgeom_is_collection(gsinter.type)
               THEN [periods |-> {}, error |-> FALSE, ub |-> TRUE]
             ELSE Only({
               [periods |-> UNION { pass[i].periods :
                                      i \in { j \in DOMAIN pass :
                                                \A b \in bad : j < b } },
                error |-> \E b \in bad : pass[b].error /\ \A o \in bad : b <= o,
                ub |-> \E b \in bad : pass[b].ub /\ \A o \in bad : b <= o] :
                 <<pass, bad>> \in
                   { <<f, { i \in DOMAIN f : f[i].error \/ f[i].ub }>> :
                       f \in { [i \in 1 .. countinter |->
                                 interperiods_pass(seq, type(i), geom(i),
                                   ends)] } } }) :
               ends \in { <<InstN(seq.insts, 0),
                            InstN(seq.insts, Len(seq.insts) - 1)>> } })

\* tcontseq_restrict_periodset(seq, ps, REST_AT)
tcontseq_at_periodset(seq, ps) ==
  SelectSeq([i \in 1 .. Len(ps) |-> tcontseq_at_period(seq, ps[i])],
            LAMBDA s : s # Null)

\* tsequenceset_restrict_periodset(ss, ps, REST_AT), from the i-th sequence
RECURSIVE tsequenceset_at_periodset(_, _, _)
tsequenceset_at_periodset(ss, ps, i) ==
  IF i > Len(ss) THEN <<>>
  ELSE tcontseq_at_periodset(ss[i], ps)
         \o tsequenceset_at_periodset(ss, ps, i + 1)

\* An STBox: the bounding box of the values vs over the period, Null for
\* no T dimension
stbox_make(vs, hasz, period) ==
  [xmin |-> MinR({ v.x : v \in vs }), xmax |-> MaxR({ v.x : v \in vs }),
   ymin |-> MinR({ v.y : v \in vs }), ymax |-> MaxR({ v.y : v \in vs }),
   zmin |-> IF hasz THEN MinR({ v.z : v \in vs }) ELSE RInt(0),
   zmax |-> IF hasz THEN MaxR({ v.z : v \in vs }) ELSE RInt(0),
   hasx |-> TRUE, hasz |-> hasz, hast |-> period # Null, period |-> period]

\* tsequence_set_bbox(seq, &box)
tsequence_set_bbox(seq) ==
  stbox_make({ seq.insts[i].v : i \in 1 .. Len(seq.insts) },
    InstN(seq.insts, 0).hasz,
    IF seq.interp = DISCRETE
      THEN span_set(InstN(seq.insts, 0).t,
             InstN(seq.insts, Len(seq.insts) - 1).t, TRUE, TRUE)
    ELSE seq_period(seq))

\* geo_set_stbox(gs, &box) of a geometry that is not empty
geo_set_stbox(gs) ==
  stbox_make({ P3(p.x, p.y, RInt(0)) : p \in gs }, FALSE, Null)

\* overlaps_span_span(s1, s2)
overlaps_span_span(s1, s2) == inter_span_span(s1, s2).found

\* overlaps_stbox_stbox(box1, box2): the boxes overlap on the dimensions
\* both have
overlaps_stbox_stbox(box1, box2) ==
  /\ (box1.hasx /\ box2.hasx) =>
       /\ RLe(box1.xmin, box2.xmax) /\ RLe(box2.xmin, box1.xmax)
       /\ RLe(box1.ymin, box2.ymax) /\ RLe(box2.ymin, box1.ymax)
  /\ (box1.hasz /\ box2.hasz) =>
       RLe(box1.zmin, box2.zmax) /\ RLe(box2.zmin, box1.zmax)
  /\ (box1.hast /\ box2.hast) => overlaps_span_span(box1.period, box2.period)

\* The fragments returned by tpointseq_make_simple for a 2D sequence
simple_fragments(seq2d) ==
  Only({ [i \in 1 .. Len(r.frags) |-> box_sequence(r.frags[i])] :
           r \in { tpointseq_make_simple(grid_sequence(seq2d)) } })

\* tpointseq_linear_at_geom once the simple fragments are known: the
\* sequence is restricted to the periods at which the fragments intersect
\* the geometry.  Returns [seqs, error].
linear_at_geom_fragments(seq, gs, frags) ==
  IF \E i \in 1 .. Len(frags) : ~ValidSequenceR(frags[i])
    THEN [seqs |-> NoSequenceSet, error |-> "tsequence_make"]
  ELSE Only({ Only({
         IF \E i \in DOMAIN parts : parts[i].error
           THEN [seqs |-> NoSequenceSet, error |-> "roundoff"]
         ELSE IF \E i \in DOMAIN parts : parts[i].ub
           THEN [seqs |-> NoSequenceSet, error |-> "undefined"]
         ELSE Only({
           IF allperiods = {} THEN [seqs |-> NoSequenceSet, error |-> ""]
           ELSE [seqs |-> tcontseq_at_periodset(seq,
                            spanarr_normalize(allperiods)),
                 error |-> ""] :
           allperiods \in { UNION { parts[i].periods : i \in DOMAIN parts } } }) :
         parts \in { [i \in { j \in DOMAIN gsinter : gsinter[j] # {} } |->
                       tpointseq_interperiods(frags[i],
                         geo_collect(gsinter[i]))] } }) :
         gsinter \in { [i \in 1 .. Len(frags) |->
                         geom_intersection2d(frags[i], gs)] } })

tpointseq_linear_at_geom(seq, gs) ==
  IF Len(seq.insts) = 1
    THEN [seqs |-> IF tpointinst_restrict_geom_time_iter(InstN(seq.insts, 0),
                        gs, Null, Null, TRUE)
                     THEN tsequence_to_tsequenceset(seq)
                   ELSE NoSequenceSet,
          error |-> ""]
  ELSE IF ~overlaps_stbox_stbox(tsequence_set_bbox(seq), geo_set_stbox(gs))
    THEN [seqs |-> NoSequenceSet, error |-> ""]
  ELSE Only({ linear_at_geom_fragments(seq, gs, frags) :
                frags \in { simple_fragments(
                              IF InstN(seq.insts, 0).hasz
                                THEN tpointseq_force2d(seq)
                              ELSE seq) } })

\* The period of the segment from inst1 to inst2 at which its Z coordinate
\* is in the span zspan of inclusive bounds, as a set of at most one span
tnumbersegm_at_span(inst1, inst2, zspan) ==
  LET z1 == inst1.v.z
      z2 == inst2.v.z
      at(z) == RAdd(inst1.t,
                 RMul(RSub(inst2.t, inst1.t), RDiv(RSub(z, z1), RSub(z2, z1))))
      a == at(zspan.lower)
      b == at(zspan.upper)
      from == MaxR({inst1.t, MinR({a, b})})
      to == MinR({inst2.t, MaxR({a, b})})
  IN  IF z1 = z2
        THEN IF contains_span_value(zspan, z1)
               THEN {span_set(inst1.t, inst2.t, TRUE, TRUE)}
             ELSE {}
      ELSE IF RLe(from, to) THEN {span_set(from, to, TRUE, TRUE)}
      ELSE {}

\* temporal_time(tnumber_restrict_span(tpoint_get_coord(ss, 2), zspan,
\* REST_AT)): the periods at which the Z coordinate of the sequences is in
\* the span, <<>> when there is none
tpoint_z_at_span_time(ss, zspan) ==
  LET within(seq) ==
        IF Len(seq.insts) = 1
          THEN IF contains_span_value(zspan, seq.insts[1].v.z)
                 THEN {seq_period(seq)}
               ELSE {}
        ELSE { inter_span_span(seq_period(seq), s).span :
                 s \in { r \in UNION { tnumbersegm_at_span(seq.insts[i],
                                         seq.insts[i + 1], zspan) :
                                         i \in 1 .. Len(seq.insts) - 1 } :
                           inter_span_span(seq_period(seq), r).found } }
  IN  spanarr_normalize(UNION { within(ss[i]) : i \in 1 .. Len(ss) })

\* if (at_xt) of tpointseq_linear_at_geom_time: the restriction to the Z
\* dimension
linear_at_zspan(at_xt, zspan) ==
  IF at_xt.error # "" \/ Len(at_xt.seqs) = 0 \/ zspan = Null THEN at_xt
  ELSE LET zs == UNION { { at_xt.seqs[i].insts[j].v.z :
                             j \in 1 .. Len(at_xt.seqs[i].insts) } :
                           i \in 1 .. Len(at_xt.seqs) }
       IN  IF ~overlaps_span_span(span_set(MinR(zs), MaxR(zs), TRUE, TRUE),
                 zspan)
             THEN [seqs |-> NoSequenceSet, error |-> ""]
           ELSE Only({ [seqs |-> tsequenceset_at_periodset(at_xt.seqs, ps, 1),
                        error |-> ""] :
                         ps \in { tpoint_z_at_span_time(at_xt.seqs, zspan) } })

tpointseq_linear_at_geom_time(seq, gs, zspan, period) ==
  IF Len(seq.insts) = 1
    THEN [seqs |-> IF tpointinst_restrict_geom_time_iter(InstN(seq.insts, 0),
                        gs, zspan, period, TRUE)
                     THEN tsequence_to_tsequenceset(seq)
                   ELSE NoSequenceSet,
          error |-> ""]
  ELSE Only({ IF at_t = Null THEN [seqs |-> NoSequenceSet, error |-> ""]
              ELSE Only({ linear_at_zspan(at_xt, zspan) :
                            at_xt \in { tpointseq_linear_at_geom(at_t, gs) } }) :
                at_t \in { IF period = Null THEN seq
                           ELSE IF overlaps_span_span(seq_period(seq), period)
                             THEN tcontseq_at_period(seq, period)
                           ELSE Null } })

\* Returns [seqs, error]
tpointseq_linear_restrict_geom_time(seq, gs, zspan, period, atfunc) ==
  Only({ IF atfunc \/ result_at.error # "" THEN result_at
         ELSE IF Len(result_at.seqs) = 0
           THEN [seqs |-> tsequence_to_tsequenceset(seq), error |-> ""]
         ELSE [seqs |-> tcontseq_minus_periodset(seq,
                          tsequenceset_time(result_at.seqs)),
               error |-> ""] :
           result_at \in { tpointseq_linear_at_geom_time(seq, gs, zspan,
                             period) } })

\* Returns the sequence, Null for NULL
tpointseq_disc_restrict_geom_time(seq, gs, zspan, period, atfunc) ==
  IF Len(seq.insts) = 1
    THEN IF tpointinst_restrict_geom_time_iter(InstN(seq.insts, 0), gs, zspan,
              period, atfunc)
           THEN seq
         ELSE Null
  ELSE Only({ IF Len(instants) > 0
                THEN tsequence_make(instants, TRUE, TRUE, DISCRETE)
              ELSE Null :
                instants \in
                  { SelectSeq(seq.insts,
                      LAMBDA inst : tpointinst_restrict_geom_time_iter(inst,
                                      gs, zspan, period, atfunc)) } })

\* Returns the sequence, Null for NULL
tpointseq_disc_restrict_stbox(seq, box, border_inc, atfunc) ==
  IF Len(seq.insts) = 1
    THEN IF tpointinst_restrict_stbox_iter(InstN(seq.insts, 0), box,
              border_inc, atfunc)
           THEN seq
         ELSE Null
  ELSE Only({ IF Len(instants) > 0
                THEN tsequence_make(instants, TRUE, TRUE, DISCRETE)
              ELSE Null :
                instants \in
                  { SelectSeq(seq.insts,
                      LAMBDA inst : tpointinst_restrict_stbox_iter(inst, box,
                                      border_inc, atfunc)) } })

(***************************************************************************)
(* Dispatch on the subtype and the interpolation.  A function returns      *)
(* [val, error, crash]: val is the value returned, Null for NULL; error    *)
(* names the error raised, "" for none; crash: the process ended.  A       *)
(* temporal value is [subtype, srid, geodetic] with inst, seq or seqs.     *)
(***************************************************************************)
Return(val) == [val |-> val, error |-> "", crash |-> FALSE]

Raise(error) == [val |-> Null, error |-> error, crash |-> FALSE]

\* A sequence returned, an error when it was made with arguments
\* tsequence_make rejects
ReturnSeq(seq) ==
  IF seq = Null THEN Return(Null)
  ELSE IF ~ValidSequenceR(seq) THEN Raise("tsequence_make")
  ELSE Return([subtype |-> "TSEQUENCE", seq |-> seq])

\* A sequence set returned, NoSequenceSet for NULL
ReturnSeqs(seqs) ==
  IF \E i \in 1 .. Len(seqs) : ~ValidSequenceR(seqs[i])
    THEN Raise("tsequence_make")
  ELSE IF Len(seqs) = 0 THEN Return(Null)
  ELSE Return([subtype |-> "TSEQUENCESET", seqs |-> seqs])

tpointseq_restrict_geom_time(seq, gs, zspan, period, atfunc) ==
  IF seq.interp = DISCRETE
    THEN Only({ ReturnSeq(r) :
                  r \in { tpointseq_disc_restrict_geom_time(seq, gs, zspan,
                            period, atfunc) } })
  ELSE IF seq.interp = STEP
    THEN Only({ ReturnSeqs(r) :
                  r \in { tpointseq_step_restrict_geom_time(seq, gs, zspan,
                            period, atfunc) } })
  ELSE Only({ IF r.error # "" THEN Raise(r.error) ELSE ReturnSeqs(r.seqs) :
                r \in { tpointseq_linear_restrict_geom_time(seq, gs, zspan,
                          period, atfunc) } })

\* The result of the loop of a sequence set once the sequence i is
\* restricted to r; acc = [seqs, error, crash]
seqset_add(acc, r) ==
  IF r.error # "" \/ r.crash
    THEN [seqs |-> <<>>, error |-> r.error, crash |-> r.crash]
  ELSE IF r.val = Null THEN acc
  ELSE [acc EXCEPT !.seqs = @ \o r.val.seqs]

\* tseqsetarr_to_tseqset(seqsets, count, totalseqs) if (totalseqs > 0)
seqset_result(acc) ==
  IF acc.error # "" \/ acc.crash
    THEN [val |-> Null, error |-> acc.error, crash |-> acc.crash]
  ELSE ReturnSeqs(acc.seqs)

\* for (int i = 0; i < ss->count; i++) of tpointseqset_restrict_geom_time;
\* parts[i] is what tpointseq_restrict_geom_time returns for the i-th
\* sequence, read where the loop calls the function
RECURSIVE seqset_geom_loop(_, _, _, _, _, _)
seqset_geom_loop(ss, gs, atfunc, parts, i, acc) ==
  IF i > Len(ss) \/ acc.error # "" \/ acc.crash THEN acc
  ELSE Only({ seqset_geom_loop(ss, gs, atfunc, parts, i + 1, next) :
                next \in {
                  IF atfunc /\ ~overlaps_stbox_stbox(tsequence_set_bbox(ss[i]),
                                   geo_set_stbox(gs))
                    THEN acc
                  ELSE seqset_add(acc, parts[i]) } })

tpointseqset_restrict_geom_time(ss, gs, zspan, period, atfunc) ==
  Only({ IF Len(ss) = 1 THEN parts[1]
         ELSE seqset_result(
                seqset_geom_loop(ss, gs, atfunc, parts, 1,
                  [seqs |-> <<>>, error |-> "", crash |-> FALSE])) :
           parts \in { [i \in 1 .. Len(ss) |->
                          tpointseq_restrict_geom_time(ss[i], gs, zspan,
                            period, atfunc)] } })

tpointseq_restrict_stbox(seq, box, border_inc, atfunc, junk, ub) ==
  IF seq.interp = DISCRETE
    THEN Only({ ReturnSeq(r) :
                  r \in { tpointseq_disc_restrict_stbox(seq, box, border_inc,
                            atfunc) } })
  ELSE IF seq.interp = STEP
    THEN Only({ ReturnSeqs(r) :
                  r \in { tpointseq_step_restrict_stbox(seq, box, border_inc,
                            atfunc) } })
  ELSE Only({ IF r.crash THEN [val |-> Null, error |-> "", crash |-> TRUE]
              ELSE ReturnSeqs(r.seqs) :
                r \in { tpointseq_linear_restrict_stbox(seq, box, border_inc,
                          atfunc, junk, ub) } })

\* for (int i = 0; i < ss->count; i++) of tpointseqset_restrict_stbox;
\* parts[i] is what tpointseq_restrict_stbox returns for the i-th sequence,
\* read where the loop calls the function
RECURSIVE seqset_stbox_loop(_, _, _, _, _, _)
seqset_stbox_loop(ss, box, atfunc, parts, i, acc) ==
  IF i > Len(ss) \/ acc.error # "" \/ acc.crash THEN acc
  ELSE Only({ seqset_stbox_loop(ss, box, atfunc, parts, i + 1, next) :
                next \in {
                  IF atfunc /\ ~overlaps_stbox_stbox(tsequence_set_bbox(ss[i]),
                                   box)
                    THEN acc
                  ELSE seqset_add(acc, parts[i]) } })

tpointseqset_restrict_stbox(ss, box, border_inc, atfunc, junk, ub) ==
  Only({ IF Len(ss) = 1 THEN parts[1]
         ELSE seqset_result(
                seqset_stbox_loop(ss, box, atfunc, parts, 1,
                  [seqs |-> <<>>, error |-> "", crash |-> FALSE])) :
           parts \in { [i \in 1 .. Len(ss) |->
                          tpointseq_restrict_stbox(ss[i], box, border_inc,
                            atfunc, junk, ub)] } })

\* The instants of a temporal value
temporal_instants(temp) ==
  IF temp.subtype = "TINSTANT" THEN {temp.inst}
  ELSE IF temp.subtype = "TSEQUENCE"
    THEN { temp.seq.insts[i] : i \in 1 .. Len(temp.seq.insts) }
  ELSE UNION { { temp.seqs[i].insts[j] : j \in 1 .. Len(temp.seqs[i].insts) } :
                 i \in 1 .. Len(temp.seqs) }

\* MEOS_FLAGS_GET_Z(temp->flags)
temporal_hasz(temp) == \E inst \in temporal_instants(temp) : inst.hasz

\* temporal_set_bbox(temp, &box)
temporal_set_bbox(temp) ==
  IF temp.subtype = "TINSTANT"
    THEN stbox_make({temp.inst.v}, temp.inst.hasz,
           span_set(temp.inst.t, temp.inst.t, TRUE, TRUE))
  ELSE IF temp.subtype = "TSEQUENCE" THEN tsequence_set_bbox(temp.seq)
  ELSE stbox_make({ inst.v : inst \in temporal_instants(temp) },
         temporal_hasz(temp),
         span_set(seq_period(temp.seqs[1]).lower,
           seq_period(temp.seqs[Len(temp.seqs)]).upper,
           temp.seqs[1].lower_inc, temp.seqs[Len(temp.seqs)].upper_inc))

\* The value returned for the temporal value temp, of its SRID
temporal_result(r, temp) ==
  IF r.val = Null THEN r
  ELSE IF r.val.subtype = "TSEQUENCE"
    THEN [r EXCEPT !.val = [subtype |-> "TSEQUENCE", srid |-> temp.srid,
                            geodetic |-> temp.geodetic, seq |-> r.val.seq]]
  ELSE [r EXCEPT !.val = [subtype |-> "TSEQUENCESET", srid |-> temp.srid,
                          geodetic |-> temp.geodetic, seqs |-> r.val.seqs]]

\* temporal_restrict_period(temp, period, atfunc): the part of the temporal
\* value in the period, or outside of it
temporal_restrict_period(temp, period, atfunc) ==
  LET at_seqs(seqs) ==
        SelectSeq([i \in 1 .. Len(seqs) |-> tcontseq_at_period(seqs[i], period)],
                  LAMBDA s : s # Null)
      RECURSIVE minus_seqs(_, _)
      minus_seqs(seqs, i) ==
        IF i > Len(seqs) THEN <<>>
        ELSE tcontseq_minus_periodset(seqs[i], <<period>>)
               \o minus_seqs(seqs, i + 1)
  IN  IF temp.subtype = "TINSTANT"
        THEN Return(IF contains_span_value(period, temp.inst.t) = atfunc
                      THEN temp
                    ELSE Null)
      ELSE IF temp.subtype = "TSEQUENCE" /\ temp.seq.interp = DISCRETE
        THEN Only({ temporal_result(
                      ReturnSeq(IF Len(instants) = 0 THEN Null
                                ELSE tsequence_make(instants, TRUE, TRUE,
                                       DISCRETE)), temp) :
                      instants \in
                        { SelectSeq(temp.seq.insts,
                            LAMBDA inst :
                              contains_span_value(period, inst.t) = atfunc) } })
      ELSE IF temp.subtype = "TSEQUENCE"
        THEN IF atfunc
               THEN temporal_result(
                      ReturnSeq(tcontseq_at_period(temp.seq, period)), temp)
             ELSE temporal_result(
                    ReturnSeqs(tcontseq_minus_periodset(temp.seq, <<period>>)),
                    temp)
      ELSE temporal_result(
             ReturnSeqs(IF atfunc THEN at_seqs(temp.seqs)
                        ELSE minus_seqs(temp.seqs, 1)), temp)

\* The bounding box of the geometry with the Z span and the period, if any
geom_time_stbox(gs, zspan, period) ==
  [geo_set_stbox(gs) EXCEPT
     !.zmin = IF zspan # Null THEN zspan.lower ELSE @,
     !.zmax = IF zspan # Null THEN zspan.upper ELSE @,
     !.hasz = zspan # Null,
     !.period = period,
     !.hast = period # Null]

\* geo = [pts, srid, hasz]: the points, the SRID and the dimensionality of
\* the geometry
tpoint_restrict_geom_time(temp, geo, zspan, period, atfunc) ==
  IF geo.pts = {} THEN Return(IF atfunc THEN Null ELSE temp)
  ELSE IF temp.srid # geo.srid THEN Raise("ensure_same_srid")
  ELSE IF geo.hasz THEN Raise("ensure_has_not_Z_gs")
  ELSE IF zspan # Null /\ ~temporal_hasz(temp) THEN Raise("ensure_has_Z")
  ELSE IF ~overlaps_stbox_stbox(temporal_set_bbox(temp),
             geom_time_stbox(geo.pts, zspan, period))
    THEN Return(IF atfunc THEN Null ELSE temp)
  ELSE IF temp.subtype = "TINSTANT"
    THEN Return(IF tpointinst_restrict_geom_time_iter(temp.inst, geo.pts,
                     zspan, period, atfunc)
                  THEN temp
                ELSE Null)
  ELSE IF temp.subtype = "TSEQUENCE"
    THEN temporal_result(
           tpointseq_restrict_geom_time(temp.seq, geo.pts, zspan, period,
             atfunc), temp)
  ELSE temporal_result(
         tpointseqset_restrict_geom_time(temp.seqs, geo.pts, zspan, period,
           atfunc), temp)

\* Mutant: without overlap of the bounding boxes the restriction minus
\* returns NULL as the restriction at does
tpoint_restrict_stbox_null(temp, box, border_inc, atfunc, junk, ub) ==
  IF box.hast /\ ~box.hasx
    THEN temporal_restrict_period(temp, box.period, atfunc)
  ELSE IF temp.srid # box.srid THEN Raise("ensure_same_srid")
  ELSE IF temp.geodetic # box.geodetic THEN Raise("ensure_same_geodetic")
  ELSE IF ~overlaps_stbox_stbox(temporal_set_bbox(temp), box)
    THEN Return(Null)
  ELSE IF temp.subtype = "TINSTANT"
    THEN Return(IF tpointinst_restrict_stbox_iter(temp.inst, box, border_inc,
                     atfunc)
                  THEN temp
                ELSE Null)
  ELSE IF temp.subtype = "TSEQUENCE"
    THEN temporal_result(
           tpointseq_restrict_stbox(temp.seq, box, border_inc, atfunc, junk,
             ub), temp)
  ELSE temporal_result(
         tpointseqset_restrict_stbox(temp.seqs, box, border_inc, atfunc, junk,
           ub), temp)

\* junk and ub: what the uninitialized variables hold and the outcome of
\* the undefined behaviour, in the restriction of a linear sequence
tpoint_restrict_stbox(temp, box, border_inc, atfunc, junk, ub) ==
  IF box.hast /\ ~box.hasx
    THEN temporal_restrict_period(temp, box.period, atfunc)
  ELSE IF temp.srid # box.srid THEN Raise("ensure_same_srid")
  ELSE IF temp.geodetic # box.geodetic THEN Raise("ensure_same_geodetic")
  ELSE IF ~overlaps_stbox_stbox(temporal_set_bbox(temp), box)
    THEN Return(IF atfunc THEN Null ELSE temp)
  ELSE IF temp.subtype = "TINSTANT"
    THEN Return(IF tpointinst_restrict_stbox_iter(temp.inst, box, border_inc,
                     atfunc)
                  THEN temp
                ELSE Null)
  ELSE IF temp.subtype = "TSEQUENCE"
    THEN temporal_result(
           tpointseq_restrict_stbox(temp.seq, box, border_inc, atfunc, junk,
             ub), temp)
  ELSE temporal_result(
         tpointseqset_restrict_stbox(temp.seqs, box, border_inc, atfunc, junk,
           ub), temp)

(***************************************************************************)
(* Specification of the entry points: a temporal point is restricted at a  *)
(* geometry or a box, then minus the same geometry or box.  Positions are  *)
(* on the grid of the splitter, two grid steps apart.                      *)
(***************************************************************************)
TopStep == 2 * GridRatio

\* Three points of a diagonal, without and with Z dimension, and the corner
\* below its end, without Z dimension; with Z dimension the end of the
\* diagonal is above the other points
TopValues ==
  { [v |-> P3(RInt(0), RInt(0), RInt(0)), hasz |-> hasz] : hasz \in BOOLEAN }
    \cup { [v |-> P3(RInt(TopStep), RInt(TopStep), RInt(0)), hasz |-> hasz] :
             hasz \in BOOLEAN }
    \cup { [v |-> P3(RInt(2 * TopStep), RInt(2 * TopStep),
                     IF hasz THEN RInt(TopStep) ELSE RInt(0)),
            hasz |-> hasz] : hasz \in BOOLEAN }
    \cup { [v |-> P3(RInt(2 * TopStep), RInt(0), RInt(0)), hasz |-> FALSE] }

\* The valid sequences of 1 .. MaxTopLen instants at the timestamps 1, 2, ...
TopSeqs ==
  { s \in UNION { [insts : { [i \in 1 .. n |->
                               [v |-> f[i].v, t |-> RInt(i),
                                hasz |-> f[i].hasz]] :
                               f \in [1 .. n -> TopValues] },
                   lower_inc : BOOLEAN, upper_inc : BOOLEAN,
                   interp : {DISCRETE, STEP, LINEAR}] : n \in 1 .. MaxTopLen } :
      /\ ValidSequenceR(s)
      /\ s.interp = DISCRETE => (s.lower_inc /\ s.upper_inc)
      /\ \A i \in 1 .. Len(s.insts) : s.insts[i].hasz = s.insts[1].hasz }

\* The instantaneous sequences after the timestamps of TopSeqs, at the
\* start and at the middle of the diagonal
TopLastSeqs ==
  [insts : { <<[v |-> p.v, t |-> RInt(MaxTopLen + 1), hasz |-> p.hasz]>> :
               p \in { q \in TopValues : RLe(q.v.x, RInt(TopStep)) } },
   lower_inc : {TRUE}, upper_inc : {TRUE}, interp : {STEP, LINEAR}]

\* Sequence sets of one sequence of inclusive bounds, alone and followed by
\* an instantaneous sequence
TopSeqSets ==
  { <<s>> : s \in { q \in TopSeqs : /\ q.interp # DISCRETE
                                     /\ q.lower_inc /\ q.upper_inc } }
    \cup { p \in TopSeqs \X TopLastSeqs :
             /\ p[1].interp = p[2].interp
             /\ p[1].insts[1].hasz = p[2].insts[1].hasz
             /\ p[1].lower_inc /\ p[1].upper_inc }

TopTemporals ==
  { [subtype |-> "TINSTANT", srid |-> 0, geodetic |-> FALSE,
     inst |-> [v |-> p.v, t |-> RInt(1), hasz |-> p.hasz]] : p \in TopValues }
    \cup { [subtype |-> "TSEQUENCE", srid |-> 0, geodetic |-> FALSE,
            seq |-> s] : s \in TopSeqs }
    \cup { [subtype |-> "TSEQUENCESET", srid |-> 0, geodetic |-> FALSE,
            seqs |-> ss] : ss \in TopSeqSets }

\* The empty geometry, points and a multipoint of the positions, in the
\* SRID of the temporal points
TopGeoms ==
  { [pts |-> pts, srid |-> 0, hasz |-> FALSE] :
      pts \in { {}, {[x |-> RInt(TopStep), y |-> RInt(TopStep)]},
                {[x |-> RInt(2 * TopStep), y |-> RInt(0)]},
                {[x |-> RInt(0), y |-> RInt(0)],
                 [x |-> RInt(2 * TopStep), y |-> RInt(2 * TopStep)]} } }

\* A geometry of another SRID, a geometry with Z dimension and the empty
\* geometry of another SRID
TopOtherGeoms ==
  { [pts |-> {[x |-> RInt(0), y |-> RInt(0)]}, srid |-> 1, hasz |-> FALSE],
    [pts |-> {[x |-> RInt(0), y |-> RInt(0)]}, srid |-> 0, hasz |-> TRUE],
    [pts |-> {}, srid |-> 1, hasz |-> FALSE] }

TopZSpans == { Null, span_set(RInt(0), RInt(0), TRUE, TRUE) }

TopPeriods == { Null, span_set(RInt(1), RInt(2), FALSE, TRUE) }

\* Boxes of one step around the start and the middle of the diagonal,
\* without and with Z and T dimension; a box of another SRID, a geodetic
\* box and a box with T dimension only
TopBoxes ==
  { [xmin |-> RInt(lo), xmax |-> RInt(lo + TopStep),
     ymin |-> RInt(lo), ymax |-> RInt(lo + TopStep),
     zmin |-> RInt(0), zmax |-> RInt(0), hasx |-> TRUE, hasz |-> hasz,
     hast |-> per # Null, period |-> per, srid |-> 0, geodetic |-> FALSE] :
      lo \in {0, TopStep}, hasz \in BOOLEAN, per \in TopPeriods }
    \cup { [xmin |-> RInt(0), xmax |-> RInt(TopStep),
            ymin |-> RInt(0), ymax |-> RInt(TopStep),
            zmin |-> RInt(0), zmax |-> RInt(0), hasx |-> f[1],
            hasz |-> FALSE, hast |-> ~f[1],
            period |-> IF f[1] THEN Null
                       ELSE span_set(RInt(1), RInt(2), FALSE, TRUE),
            srid |-> f[2], geodetic |-> f[3]] :
             f \in { <<FALSE, 0, FALSE>>, <<TRUE, 1, FALSE>>,
                     <<TRUE, 0, TRUE>> } }

InitTop ==
  /\ op = "top"
  /\ pc = "call"
  /\ \/ arg \in [temp : TopTemporals, to : {"geom"}, geo : TopGeoms,
                 zspan : TopZSpans, period : TopPeriods]
     \/ arg \in [temp : TopTemporals, to : {"geom"}, geo : TopOtherGeoms,
                 zspan : TopZSpans, period : {Null}]
     \/ arg \in [temp : TopTemporals, to : {"box"}, box : TopBoxes,
                 border_inc : BOOLEAN]
  /\ res = NoRes

\* tpoint_restrict_geom_time(temp, gs, zspan, period, atfunc): REST_AT
\* first, then REST_MINUS of the same arguments
TopRestrictGeom ==
  /\ op = "top" /\ pc \in {"call", "at"} /\ arg.to = "geom"
  /\ \E atfunc \in {pc = "call"} :
       \E r \in { tpoint_restrict_geom_time(arg.temp, arg.geo, arg.zspan,
                    arg.period, atfunc) } :
         /\ res' = IF atfunc THEN [at |-> r, minus |-> Return(Null)]
                   ELSE [res EXCEPT !.minus = r]
         /\ pc' = IF atfunc THEN "at" ELSE "minus"
  /\ UNCHANGED <<op, arg>>

\* tpoint_restrict_stbox(temp, box, border_inc, atfunc): REST_AT first, then
\* REST_MINUS of the same arguments
TopRestrictStbox ==
  /\ op = "top" /\ pc \in {"call", "at"} /\ arg.to = "box"
  /\ \E atfunc \in {pc = "call"}, junk \in LinJunk, ub \in {"crash", "empty"} :
       \E r \in { tpoint_restrict_stbox(arg.temp, arg.box, arg.border_inc,
                    atfunc, junk, ub) } :
         /\ res' = IF atfunc THEN [at |-> r, minus |-> Return(Null)]
                   ELSE [res EXCEPT !.minus = r]
         /\ pc' = IF atfunc THEN "at" ELSE "minus"
  /\ UNCHANGED <<op, arg>>

NextTop == TopRestrictGeom \/ TopRestrictStbox

SpecTop == InitTop /\ [][NextTop]_vars
(***************************************************************************)
(* Claims about the entry points                                           *)
(***************************************************************************)
\* The arguments pass the parameter tests of the entry point
TopValidArgs ==
  IF arg.to = "geom"
    THEN \/ arg.geo.pts = {}
         \/ /\ arg.geo.srid = arg.temp.srid
            /\ ~arg.geo.hasz
            /\ arg.zspan # Null => temporal_hasz(arg.temp)
  ELSE \/ arg.box.hast /\ ~arg.box.hasx
       \/ arg.box.srid = arg.temp.srid /\ arg.box.geodetic = arg.temp.geodetic

\* The bounding box of the temporal point does not overlap the bounding box
\* of the region: of the geometry with the Z span and the period given, or
\* the box
TopBboxDisjoint ==
  IF arg.to = "geom"
    THEN /\ arg.geo.pts # {}
         /\ ~overlaps_stbox_stbox(temporal_set_bbox(arg.temp),
               geom_time_stbox(arg.geo.pts, arg.zspan, arg.period))
  ELSE ~overlaps_stbox_stbox(temporal_set_bbox(arg.temp), arg.box)

\* The timestamps of the instants of a value returned, none for NULL
TemporalTimestamps(v) ==
  IF v = Null THEN {} ELSE { inst.t : inst \in temporal_instants(v) }

\* The timestamps in play for the restrictions of arg.temp
TopTimestamps ==
  TemporalTimestamps(arg.temp) \cup TemporalTimestamps(res.at.val)
    \cup TemporalTimestamps(res.minus.val)

\* The time extent of a value returned, empty for NULL
TemporalTime(v, B) ==
  IF v = Null THEN {}
  ELSE IF v.subtype = "TINSTANT" THEN {<<v.inst.t, 0>>}
  ELSE IF v.subtype = "TSEQUENCE" THEN TimeOfSeqR(v.seq, B)
  ELSE TimeOfSeqsR(v.seqs, B)

\* The two values are the same trajectory: the same value, or the same
\* sequences as a sequence and as a sequence set
SameTrajectory(a, b) ==
  /\ a # Null /\ b # Null
  /\ \/ a = b
     \/ /\ a.subtype # "TINSTANT" /\ b.subtype # "TINSTANT"
        /\ a.srid = b.srid /\ a.geodetic = b.geodetic
        /\ (IF a.subtype = "TSEQUENCE" THEN <<a.seq>> ELSE a.seqs)
             = (IF b.subtype = "TSEQUENCE" THEN <<b.seq>> ELSE b.seqs)

\* Neither restriction raised an error or ended the process
TopNoError ==
  /\ res.at.error = "" /\ ~res.at.crash
  /\ res.minus.error = "" /\ ~res.minus.crash

\* C1 (as claimed): for every temporal point (instant, discrete, step or
\* linear sequence, sequence set) and every region (geometry with optional Z
\* span and period, or box with either border mode) accepted by the parameter
\* tests, the time extent of the restriction at and the time extent of the
\* restriction minus are disjoint and their union is the time extent of the
\* temporal point, an absent result counting as the empty extent.
C1_AtMinusPartition ==
  (op = "top" /\ pc = "minus" /\ TopValidArgs) =>
    /\ TopNoError
    /\ TemporalTime(res.at.val, TopTimestamps)
         \cap TemporalTime(res.minus.val, TopTimestamps) = {}
    /\ TemporalTime(res.at.val, TopTimestamps)
         \cup TemporalTime(res.minus.val, TopTimestamps)
         = TemporalTime(arg.temp, TopTimestamps)

\* C10 (as claimed): when the bounding box of the temporal point does not
\* overlap the bounding box of the region, the restriction to a geometry and
\* the restriction to a box raise no error, the restriction at returns
\* no result and the restriction minus returns a value equal to the whole
\* temporal point.
C10_BboxMismatchNoError ==
  (op = "top" /\ pc = "minus" /\ TopBboxDisjoint) =>
    /\ TopNoError
    /\ res.at.val = Null
    /\ SameTrajectory(res.minus.val, arg.temp)

\* C10 (amended): when the arguments pass the parameter tests of the entry
\* point and the bounding box of the temporal point does not overlap the
\* bounding box of the region, the restriction to a geometry and the
\* restriction to a box raise no error, the restriction at returns no result
\* and the restriction minus returns a value equal to the whole temporal
\* point: the very value unless the box has no spatial dimension.
C10_ValidBboxMismatchNoError ==
  (op = "top" /\ pc = "minus" /\ TopValidArgs /\ TopBboxDisjoint) =>
    /\ TopNoError
    /\ res.at.val = Null
    /\ SameTrajectory(res.minus.val, arg.temp)
    /\ (arg.to = "geom" \/ arg.box.hasx) => res.minus.val = arg.temp

\* C10 witness: a linear sequence of two instants is restricted to a
\* geometry or to a box away from it; the restriction minus returned it
C10_Witness ==
  /\ op = "top" /\ pc = "minus" /\ TopValidArgs /\ TopBboxDisjoint
  /\ arg.temp.subtype = "TSEQUENCE" /\ arg.temp.seq.interp = LINEAR
  /\ Len(arg.temp.seq.insts) = 2
  /\ res.at = Return(Null)
  /\ res.minus = Return(arg.temp)


\* The spatial reference or the Z dimensionality of the region does not match
\* the temporal point: another SRID, a geometry with Z dimension, or a Z span
\* given for a temporal point without Z dimension
TopMismatch ==
  IF arg.to = "geom"
    THEN \/ arg.geo.srid # arg.temp.srid
         \/ arg.geo.hasz
         \/ arg.zspan # Null /\ ~temporal_hasz(arg.temp)
  ELSE arg.box.hasx /\ arg.box.srid # arg.temp.srid

\* The errors raised by the parameter tests for such a mismatch
MismatchErrors == {"ensure_same_srid", "ensure_has_not_Z_gs", "ensure_has_Z"}

\* C11 (as claimed): in the restriction to a geometry and in the restriction
\* to a box, a mismatch of the spatial reference or of the Z dimensionality
\* between the temporal point and the region is rejected on every call: the
\* call raises the error of the parameter test and returns no result.
C11_MismatchRejected ==
  (op = "top" /\ pc \in {"at", "minus"} /\ TopMismatch) =>
    /\ res.at.error \in MismatchErrors /\ res.at.val = Null
    /\ pc = "minus" =>
         (res.minus.error \in MismatchErrors /\ res.minus.val = Null)

\* C12 (as claimed): the restriction to an empty geometry reports an error,
\* at and minus, rather than returning a result.
C12_EmptyGeometryError ==
  (op = "top" /\ pc \in {"at", "minus"} /\ arg.to = "geom"
     /\ arg.geo.pts = {}) =>
    /\ res.at.error # ""
    /\ pc = "minus" => res.minus.error # ""

(***************************************************************************)
(* Specification of the location of intersections in time: the geometry    *)
(* path maps an intersection geometry back to periods of a simple linear   *)
(* sequence (tpointseq_interperiods); the box path locates the two points  *)
(* returned by the clip on their segment (tpointseq_linear_at_stbox_xyz).  *)
(* The intersection and the clipped points are those an external library   *)
(* or double arithmetic hands over: they lie on the trajectory or, with    *)
(* roundoff on large coordinates, away from it by more than MEOS_EPSILON.  *)
(***************************************************************************)
\* largest number of instants of a sequence whose intersections are located
MaxInterLen == 3

\* Positions of the sequences: three corners of a square of side TopStep
InterValues ==
  { P3(RInt(0), RInt(0), RInt(0)), P3(RInt(TopStep), RInt(0), RInt(0)),
    P3(RInt(TopStep), RInt(TopStep), RInt(0)) }

\* The simple linear sequences of 2 .. MaxInterLen instants
InterSeqs ==
  { s \in UNION { [insts : { [i \in 1 .. n |->
                               [v |-> f[i], t |-> RInt(i), hasz |-> FALSE]] :
                               f \in [1 .. n -> InterValues] },
                   lower_inc : BOOLEAN, upper_inc : BOOLEAN,
                   interp : {LINEAR}] : n \in 2 .. MaxInterLen } :
      ValidSequenceR(s) /\ tpointseq_is_simple(grid_sequence(s)) }

\* Points of intersection geometries: two corners, the middle of the lower
\* side and the fourth corner of the square, which no sequence passes
InterPts ==
  { [x |-> RInt(0), y |-> RInt(0)], [x |-> RInt(TopStep \div 2), y |-> RInt(0)],
    [x |-> RInt(TopStep), y |-> RInt(TopStep)],
    [x |-> RInt(0), y |-> RInt(TopStep)] }

\* Points, lines and a polygon
InterSimpleGeoms ==
  { [type |-> "POINTTYPE", points |-> <<p>>, geoms |-> <<>>] : p \in InterPts }
    \cup { [type |-> "LINETYPE", points |-> <<p, q>>, geoms |-> <<>>] :
             p \in InterPts, q \in InterPts }
    \cup { [type |-> "POLYGONTYPE",
            points |-> <<[x |-> RInt(0), y |-> RInt(0)],
                         [x |-> RInt(TopStep), y |-> RInt(0)],
                         [x |-> RInt(TopStep), y |-> RInt(TopStep)],
                         [x |-> RInt(0), y |-> RInt(0)]>>,
            geoms |-> <<>>] }

\* The geometries above, alone, as the only member of a collection and as
\* the two members of a collection
InterGeoms ==
  InterSimpleGeoms
    \cup { [type |-> IF g.type = "POINTTYPE" THEN "MULTIPOINTTYPE"
                     ELSE IF g.type = "LINETYPE" THEN "MULTILINETYPE"
                     ELSE "MULTIPOLYGONTYPE",
            points |-> <<>>, geoms |-> <<g>>] : g \in InterSimpleGeoms }
    \cup { [type |-> "COLLECTIONTYPE", points |-> <<>>, geoms |-> <<g, h>>] :
             g \in InterSimpleGeoms, h \in InterSimpleGeoms }

\* The segments clipped and what the clip returned for them
InterClipped ==
  { c \in [inst1 : { [v |-> v, t |-> RInt(1), hasz |-> FALSE] :
                       v \in InterValues },
           inst2 : { [v |-> v, t |-> RInt(2), hasz |-> FALSE] :
                       v \in InterValues },
           clip : [found : {TRUE},
                   p3 : { P3(p.x, p.y, RInt(0)) : p \in InterPts },
                   p4 : { P3(p.x, p.y, RInt(0)) : p \in InterPts },
                   p3_inc : BOOLEAN, p4_inc : BOOLEAN],
           border_inc : BOOLEAN, lower_inc : BOOLEAN, upper_inc : BOOLEAN] :
      c.inst1.v # c.inst2.v }

InitInter ==
  /\ \/ /\ op = "inter"
        /\ arg \in [seq : InterSeqs, gsinter : InterGeoms]
     \/ /\ op = "clipped"
        /\ arg \in InterClipped
  /\ pc = "call"
  /\ res = NoRes

\* tpointseq_interperiods(seq, gsinter, &count).  The dereference of a NULL
\* pointer ends the process, or the pass it occurs in yields no period
Interperiods ==
  /\ op = "inter" /\ pc = "call"
  /\ \E ub \in {"crash", "empty"} :
       \E r \in { tpointseq_interperiods(arg.seq, arg.gsinter) } :
         res' = IF r.error
                  THEN [periods |-> {}, error |-> "roundoff", crash |-> FALSE]
                ELSE IF r.ub /\ ub = "crash"
                  THEN [periods |-> {}, error |-> "", crash |-> TRUE]
                ELSE [periods |-> r.periods, error |-> "", crash |-> FALSE]
  /\ pc' = "interperiods"
  /\ UNCHANGED <<op, arg>>

\* if (found) of tpointseq_linear_at_stbox_xyz for a segment without Z
\* dimension that is not constant: the sequences added to the result
LinearClipped ==
  /\ op = "clipped" /\ pc = "call"
  /\ \E junk \in LinJunk :
       \E r \in { linear_clipped(arg.inst1, arg.inst2, arg.clip, FALSE,
                    arg.border_inc, arg.lower_inc, arg.upper_inc, junk) } :
         res' = [seqs |-> r,
                 error |-> IF \E i \in 1 .. Len(r) : ~ValidSequenceR(r[i])
                             THEN "tsequence_make"
                           ELSE ""]
  /\ pc' = "clipped"
  /\ UNCHANGED <<op, arg>>

NextInter == Interperiods \/ LinearClipped

SpecInter == InitInter /\ [][NextInter]_vars

(***************************************************************************)
(* Claims about the location of intersections                              *)
(***************************************************************************)
\* The sequence whose intersections are located is not stationary
InterMoves ==
  Len(arg.seq.insts) > 2 \/ arg.seq.insts[1].v # arg.seq.insts[2].v

\* The geometry is a point, a line, or a collection of points and lines
InterSupported(g) ==
  \/ g.type \in {"POINTTYPE", "LINETYPE"}
  \/ /\ g.type \in {"MULTIPOINTTYPE", "MULTILINETYPE", "COLLECTIONTYPE"}
     /\ \A i \in 1 .. Len(g.geoms) :
          g.geoms[i].type \in {"POINTTYPE", "LINETYPE"}

\* What mapping the geometry g back to periods of arg.seq yields when no
\* NULL pointer is dereferenced
InterPeriodsOf(g) ==
  LET r == tpointseq_interperiods(arg.seq, g)
  IN  IF r.error THEN [periods |-> {}, error |-> "roundoff", crash |-> FALSE]
      ELSE [periods |-> r.periods, error |-> "", crash |-> FALSE]

\* C13 (as claimed): when the intersection geometry, or a member of the
\* collection it is, is neither a point nor a line, mapping it back to
\* periods reports the error of an unsupported geometry and yields no
\* period; a collection of exactly one member is processed as that member.
C13_UnsupportedGeometry ==
  (op = "inter" /\ pc = "interperiods" /\ InterMoves) =>
    /\ ~InterSupported(arg.gsinter) =>
         /\ res.error = "unsupported"
         /\ res.periods = {}
         /\ ~res.crash
    /\ (InterSupported(arg.gsinter) /\ Len(arg.gsinter.geoms) = 1) =>
         res = InterPeriodsOf(arg.gsinter.geoms[1])

\* The point p is not found on any segment of arg.seq
InterNotLocated(p) ==
  ~tpointseq_timestamp_at_value(arg.seq, P3(p.x, p.y, RInt(0)), FALSE).found

\* The clipped point p is not found on the segment clipped
ClippedNotLocated(p) ==
  ~tpointsegm_timestamp_at_value1(arg.inst1, arg.inst2, p, FALSE,
     RInt(0)).found

\* C14 (as claimed): whenever the location of a point on the segments does
\* not find it within MEOS_EPSILON, the operation ends with the error of
\* the roundoff and produces no result: on the geometry path, for the
\* points of a point or line intersection located on a simple sequence, and
\* on the box path, for the two clipped points located on their segment.
C14_LocationFailureIsFatal ==
  /\ (op = "inter" /\ pc = "interperiods" /\ InterMoves
        /\ arg.gsinter.type \in {"POINTTYPE", "LINETYPE"}
        /\ \E i \in 1 .. Len(arg.gsinter.points) :
             InterNotLocated(arg.gsinter.points[i])) =>
       (res.error = "roundoff" /\ res.periods = {})
  /\ (op = "clipped" /\ pc = "clipped"
        /\ (ClippedNotLocated(arg.clip.p3) \/ ClippedNotLocated(arg.clip.p4))) =>
       (res.error = "roundoff" /\ res.seqs = <<>>)

(***************************************************************************)
(* Specification of the two splitters applied to a sequence                *)
(***************************************************************************)
\* Longest sequence handed to a splitter
MaxSplitLen == 4

\* Discrete and linear sequences of 2 .. MaxSplitLen instants at the
\* timestamps 1, 2, ... (the splitters read neither timestamps nor bounds)
SplitInputs ==
  UNION { [insts : { [i \in 1 .. n |-> [v |-> f[i], t |-> i]] :
                       f \in [1 .. n -> SplitPoints] },
           lower_inc : {TRUE}, upper_inc : {TRUE},
           interp : {DISCRETE, LINEAR}] : n \in 2 .. MaxSplitLen }

InitSplit ==
  /\ op = "split"
  /\ pc = "call"
  /\ arg \in SplitInputs
  /\ res = NoRes

\* tpointseq_linear_find_splits(seq, &count) for a linear sequence,
\* tpointseq_discstep_find_splits(seq, &count) otherwise
FindSplits ==
  /\ op = "split" /\ pc = "call"
  /\ \E sp \in { IF arg.interp = LINEAR
                   THEN tpointseq_linear_find_splits(arg)
                 ELSE tpointseq_discstep_find_splits(arg) } :
       res' = [bitarr |-> sp.bitarr, count |-> sp.count]
  /\ pc' = "find_splits"
  /\ UNCHANGED <<op, arg>>

NextSplit == FindSplits

SpecSplit == InitSplit /\ [][NextSplit]_vars

(***************************************************************************)
(* Claims about the splitters                                              *)
(***************************************************************************)
\* The position of the instant i (from 0) of arg
SplitPointN(i) == InstN(arg.insts, i).v

\* The instants at which the splitter cut arg
SplitCuts == { k \in DOMAIN res.bitarr : res.bitarr[k] }

\* The instants 1 .. count - 2 bordering a stationary segment
StationaryCuts ==
  { k \in 1 .. Len(arg.insts) - 2 :
      \/ SplitPointN(k - 1) = SplitPointN(k)
      \/ SplitPointN(k) = SplitPointN(k + 1) }

\* The classification of the segments (i, i + 1) and (j, j + 1) forces a cut:
\* Cross, Touch or Overlap, or TouchAtSharedEndpoint unless the segments are
\* consecutive and touch at their common vertex
PairForcesCut(i, j) ==
  LET r == seg2d_intersection(SplitPointN(i), SplitPointN(i + 1),
             SplitPointN(j), SplitPointN(j + 1), Pt(0, 0))
  IN  \/ r.type \in {MEOS_SEG_CROSS, MEOS_SEG_TOUCH, MEOS_SEG_OVERLAP}
      \/ /\ r.type = MEOS_SEG_TOUCH_END
         /\ ~(j = i + 1 /\ r.p = SplitPointN(j))

\* The cuts of a linear sequence, stated declaratively: k is a cut exactly
\* when it borders a stationary segment or the segment starting at k forms a
\* pair forcing a cut with a segment starting between the previous cut (or 0)
\* and k - 1
LinearCuts ==
  CHOOSE cuts \in SUBSET (1 .. Len(arg.insts) - 2) :
    \A k \in 1 .. Len(arg.insts) - 2 :
      k \in cuts <=>
        \/ k \in StationaryCuts
        \/ \E i \in LastCutBefore(cuts, k) .. k - 1 : PairForcesCut(i, k)

\* Exact plane geometry of the positions
Cross2(o, p, q) == (p.x - o.x) * (q.y - o.y) - (p.y - o.y) * (q.x - o.x)

\* q lies on the closed segment ab
OnSegment(a, b, q) ==
  /\ Cross2(a, b, q) = 0
  /\ Min(a.x, b.x) <= q.x /\ q.x <= Max(a.x, b.x)
  /\ Min(a.y, b.y) <= q.y /\ q.y <= Max(a.y, b.y)

\* The closed segments ab and cd have a point in common
SegmentsMeet(a, b, c, d) ==
  \/ /\ SIGNUM(Cross2(c, d, a)) * SIGNUM(Cross2(c, d, b)) < 0
     /\ SIGNUM(Cross2(a, b, c)) * SIGNUM(Cross2(a, b, d)) < 0
  \/ OnSegment(c, d, a) \/ OnSegment(c, d, b)
  \/ OnSegment(a, b, c) \/ OnSegment(a, b, d)

\* The segment bc leaves b along the segment ba: the consecutive segments ab
\* and bc have more than b in common
FoldsBack(a, b, c) ==
  /\ Cross2(b, a, c) = 0
  /\ (a.x - b.x) * (c.x - b.x) + (a.y - b.y) * (c.y - b.y) > 0

\* The polyline through the points pts has no stationary segment and the
\* only points its segments have in common are the common vertices of
\* consecutive segments
SimplePolyline(pts) ==
  /\ \A i \in 0 .. Len(pts) - 2 : InstN(pts, i) # InstN(pts, i + 1)
  /\ \A i \in 0 .. Len(pts) - 3 :
       ~FoldsBack(InstN(pts, i), InstN(pts, i + 1), InstN(pts, i + 2))
  /\ \A i, j \in 0 .. Len(pts) - 2 :
       j > i + 1 =>
         ~SegmentsMeet(InstN(pts, i), InstN(pts, i + 1),
                       InstN(pts, j), InstN(pts, j + 1))

\* The positions of a sequence
PointsOf(seq) == [i \in 1 .. Len(seq.insts) |-> seq.insts[i].v]

OnlyCommonVertices == SimplePolyline(PointsOf(arg))

CutIndices ==
  IF arg.interp = DISCRETE THEN 1 .. Len(arg.insts) - 1
  ELSE 1 .. Len(arg.insts) - 2

\* The fragment of arg from the instant start to the instant end
SplitFragment(start, end) ==
  tsequence_make(Piece(arg.insts, start, end - start + 1), TRUE, TRUE,
    arg.interp)

\* The first instant of the fragment following the one starting at start,
\* for the cuts K
NextCut(K, start) ==
  LET after == { c \in K : c > start } \cup {Len(arg.insts)}
  IN  CHOOSE m \in after : \A c \in after : m <= c

\* The fragments arg is split into by the cuts K
FragmentsOfCuts(K) ==
  IF arg.interp = DISCRETE
    THEN { SplitFragment(s, NextCut(K, s) - 1) : s \in K \cup {0} }
  ELSE { SplitFragment(s, Min(NextCut(K, s), Len(arg.insts) - 1)) :
           s \in K \cup {0} }

\* The fragments, but the last one, extended by the next instant of arg
ExtendedFragmentsOfCuts(K) ==
  IF arg.interp = DISCRETE
    THEN { SplitFragment(s, NextCut(K, s)) :
             s \in { c \in K \cup {0} : NextCut(K, c) < Len(arg.insts) } }
  ELSE { SplitFragment(s, NextCut(K, s) + 1) :
           s \in { c \in K \cup {0} : NextCut(K, c) < Len(arg.insts) } }

\* A fragment is simple: a discrete fragment visits no position twice, a
\* linear fragment has two instants or is a simple polyline
FragmentSimple(f) ==
  IF f.interp = DISCRETE
    THEN \A i, j \in 1 .. Len(f.insts) :
           i < j => f.insts[i].v # f.insts[j].v
  ELSE Len(f.insts) <= 2 \/ SimplePolyline(PointsOf(f))

\* C20: for a discrete and for a linear sequence the cuts of the splitter
\* split the sequence into simple fragments, no set of fewer cuts does, and
\* every fragment but the last one is maximal: extended by the next instant
\* of the sequence it is not simple.
C20_CutsAreMinimal ==
  (op = "split" /\ pc = "find_splits") =>
    /\ SplitCuts \subseteq CutIndices
    /\ \A f \in FragmentsOfCuts(SplitCuts) : FragmentSimple(f)
    /\ \A K \in SUBSET CutIndices :
         (\A f \in FragmentsOfCuts(K) : FragmentSimple(f)) =>
           Cardinality(K) >= res.count
    /\ \A f \in ExtendedFragmentsOfCuts(SplitCuts) : ~FragmentSimple(f)

\* C20 witness: a linear sequence of four instants without stationary
\* segments was cut once although the two cuts 1 and 2 give simple
\* fragments as well
C20_Witness ==
  /\ op = "split" /\ pc = "find_splits" /\ arg.interp = LINEAR
  /\ Len(arg.insts) = 4 /\ res.count = 1 /\ StationaryCuts = {}
  /\ \A f \in FragmentsOfCuts({1, 2}) : FragmentSimple(f)
  /\ \E f \in FragmentsOfCuts({}) : ~FragmentSimple(f)

(***************************************************************************)
(* Claims about the clip: acceptance, output points and the passes of the  *)
(* loop                                                                    *)
(***************************************************************************)
\* The fractions of the segment from arg.p1 to arg.p2 at which it lies
\* within the closed box: [ok, from, to]
ClipPart ==
  LET rx == AxisRange(arg.p1.x, arg.p2.x, arg.box.xmin, arg.box.xmax)
      ry == AxisRange(arg.p1.y, arg.p2.y, arg.box.ymin, arg.box.ymax)
      rz == IF arg.hasz
              THEN AxisRange(arg.p1.z, arg.p2.z, arg.box.zmin, arg.box.zmax)
            ELSE [ok |-> TRUE, from |-> RInt(0), to |-> RInt(1)]
      from == MaxR({rx.from, ry.from, rz.from})
      to == MinR({rx.to, ry.to, rz.to})
  IN  [ok |-> rx.ok /\ ry.ok /\ rz.ok /\ RLe(from, to), from |-> from,
       to |-> to]

\* The point of the segment from arg.p1 to arg.p2 at the fraction r
ClipPointAt(r) ==
  P3(RAdd(arg.p1.x, RMul(r, RSub(arg.p2.x, arg.p1.x))),
     RAdd(arg.p1.y, RMul(r, RSub(arg.p2.y, arg.p1.y))),
     IF arg.hasz THEN RAdd(arg.p1.z, RMul(r, RSub(arg.p2.z, arg.p1.z)))
     ELSE RInt(0))

\* The state of the clip when its loop is entered
ClipStart ==
  LET z1 == IF arg.hasz THEN arg.p1.z ELSE RInt(0)
      z2 == IF arg.hasz THEN arg.p2.z ELSE RInt(0)
  IN  [x1 |-> arg.p1.x, y1 |-> arg.p1.y, z1 |-> z1,
       x2 |-> arg.p2.x, y2 |-> arg.p2.y, z2 |-> z2,
       code1 |-> computeCode(arg.p1.x, arg.p1.y, z1, arg.hasz, arg.box),
       code2 |-> computeCode(arg.p2.x, arg.p2.y, z2, arg.hasz, arg.box)]

\* The loop has ended in the state st
ClipEnded(st) ==
  (st.code1 = 0 /\ st.code2 = 0) \/ BitAnd(st.code1, st.code2)

\* The region code of the endpoint a pass replaces, and the first face of
\* it in the order left, right, bottom, top, front, back
ClipCodeOut(st) == IF st.code1 # 0 THEN st.code1 ELSE st.code2

ClipFace(code) ==
  CHOOSE face \in {LEFT, RIGHT, BOTTOM, TOP, FRONT, BACK} :
    /\ HasBit(code, face)
    /\ \A other \in {LEFT, RIGHT, BOTTOM, TOP, FRONT, BACK} :
         HasBit(code, other) => face <= other

\* The divisor of the intersection with the face
ClipDivisor(st, face) ==
  IF face \in {LEFT, RIGHT} THEN RSub(st.x2, st.x1)
  ELSE IF face \in {BOTTOM, TOP} THEN RSub(st.y2, st.y1)
  ELSE RSub(st.z2, st.z1)

\* The states of the loop from st on, up to its end or to a pass that would
\* divide by zero: [steps, divzero]
RECURSIVE ClipTrace(_)
ClipTrace(st) ==
  IF ClipEnded(st) THEN [steps |-> <<st>>, divzero |-> FALSE]
  ELSE IF ClipDivisor(st, ClipFace(ClipCodeOut(st))) = RInt(0)
    THEN [steps |-> <<st>>, divzero |-> TRUE]
  ELSE LET rest == ClipTrace(clip_replace(st,
                     clip_intersection(st, ClipCodeOut(st), arg.box, arg.hasz),
                     arg.box, arg.hasz))
       IN  [steps |-> <<st>> \o rest.steps, divzero |-> rest.divzero]

\* The point p lies on the face of the box
ClipOnFace(p, face) ==
  IF face = LEFT THEN p.x = arg.box.xmin
  ELSE IF face = RIGHT THEN p.x = arg.box.xmax
  ELSE IF face = BOTTOM THEN p.y = arg.box.ymin
  ELSE IF face = TOP THEN p.y = arg.box.ymax
  ELSE IF face = FRONT THEN p.z = arg.box.zmin
  ELSE p.z = arg.box.zmax

\* The endpoint that the pass from the state a to the state b replaced
ClipReplaced(a, b) ==
  IF a.code1 # 0 THEN P3(b.x1, b.y1, b.z1) ELSE P3(b.x2, b.y2, b.z2)

\* Every pass of the loop puts the endpoint it replaces on the first face, in
\* the order left, right, bottom, top, front, back, that the endpoint
\* violates, and no pass divides by zero
ClipPassesInOrder ==
  LET tr == ClipTrace(ClipStart)
  IN  /\ ~tr.divzero
      /\ \A k \in 1 .. Len(tr.steps) - 1 :
           ClipOnFace(ClipReplaced(tr.steps[k], tr.steps[k + 1]),
                      ClipFace(ClipCodeOut(tr.steps[k])))

\* C21: with border_inc true, for a non-degenerate segment the clip accepts
\* exactly when the segment has a point in the closed box (in 2D, and in 3D
\* when segment and box have Z); the two output points are then the first
\* and the last point of the segment within the box, in the order of the
\* input points; every pass tries the faces in the order left, right,
\* bottom, top, front, back and no pass divides by zero.
C21_ClipAcceptsClosedBox ==
  (op = "clip" /\ pc = "cohenSutherlandClip" /\ arg.border_inc
     /\ arg.p1 # arg.p2) =>
    /\ res.found <=> ClipPart.ok
    /\ res.found =>
         /\ res.p3 = ClipPointAt(ClipPart.from)
         /\ res.p4 = ClipPointAt(ClipPart.to)
         /\ InBoxClosed(res.p3, arg.box, arg.hasz)
         /\ InBoxClosed(res.p4, arg.box, arg.hasz)
    /\ ClipPassesInOrder

\* C21 witness: a 3D segment with both endpoints outside the box was clipped
\* at both ends to a piece of more than one point
C21_Witness ==
  /\ op = "clip" /\ pc = "cohenSutherlandClip" /\ arg.border_inc /\ arg.hasz
  /\ ~InBoxClosed(arg.p1, arg.box, TRUE) /\ ~InBoxClosed(arg.p2, arg.box, TRUE)
  /\ res.found /\ res.p3 # res.p4
  /\ res.p3 # arg.p1 /\ res.p4 # arg.p2

\* The maximum borders of the box that the point lies on, i.e. is less than
\* MEOS_EPSILON below
ClipMaxBorders(q) ==
  {axis \in {"x", "y"} \cup (IF arg.hasz THEN {"z"} ELSE {}) :
     LET max == IF axis = "x" THEN arg.box.xmax
                ELSE IF axis = "y" THEN arg.box.ymax ELSE arg.box.zmax
         at == IF axis = "x" THEN q.x ELSE IF axis = "y" THEN q.y ELSE q.z
     IN  RLt(RSub(max, at), RInt(EpsLen))}

\* The output of the clip with border_inc false for a segment that the loop
\* accepted, when it is rejected as a whole exactly if rejected holds
ClipExclusiveOutput(rejected) ==
  IF rejected THEN ~res.found
  ELSE /\ res.found
       /\ res.p3_inc <=> ClipMaxBorders(ClipPointAt(ClipPart.from)) = {}
       /\ res.p4_inc <=> ClipMaxBorders(ClipPointAt(ClipPart.to)) = {}

\* C22 (as claimed): with border_inc false, a segment accepted by the loop is
\* rejected as a whole exactly when both of its (possibly replaced) endpoints
\* lie on maximum borders of the box; otherwise it is accepted and the
\* inclusion flag of each endpoint is true exactly when the endpoint lies on
\* no maximum border.
C22_RejectedOnMaxBorders ==
  (op = "clip" /\ pc = "cohenSutherlandClip" /\ ~arg.border_inc
     /\ ClipPart.ok) =>
    ClipExclusiveOutput(/\ ClipMaxBorders(ClipPointAt(ClipPart.from)) # {}
                        /\ ClipMaxBorders(ClipPointAt(ClipPart.to)) # {})

\* C22 (amended): with border_inc false, a segment accepted by the loop is
\* rejected as a whole exactly when both of its (possibly replaced) endpoints
\* lie on one and the same maximum border of the box; otherwise it is
\* accepted and the inclusion flag of each endpoint is true exactly when the
\* endpoint lies on no maximum border.
C22_RejectedOnCommonMaxBorder ==
  (op = "clip" /\ pc = "cohenSutherlandClip" /\ ~arg.border_inc
     /\ ClipPart.ok) =>
    ClipExclusiveOutput(ClipMaxBorders(ClipPointAt(ClipPart.from))
                          \cap ClipMaxBorders(ClipPointAt(ClipPart.to)) # {})

\* C22 witness: a clipped segment whose endpoints lie on two different
\* maximum borders was accepted with both endpoints excluded
C22_Witness ==
  /\ op = "clip" /\ pc = "cohenSutherlandClip" /\ ~arg.border_inc
  /\ res.found /\ ~res.p3_inc /\ ~res.p4_inc
  /\ res.p3 # arg.p1 /\ res.p4 # arg.p2
  /\ ClipMaxBorders(res.p3) # {} /\ ClipMaxBorders(res.p4) # {}
  /\ ClipMaxBorders(res.p3) \cap ClipMaxBorders(res.p4) = {}

\* A segment along a maximum border was rejected as a whole
C22_WitnessRejected ==
  /\ op = "clip" /\ pc = "cohenSutherlandClip" /\ ~arg.border_inc
  /\ arg.p1 # arg.p2 /\ ClipPart.ok /\ ~res.found

(***************************************************************************)
(* Claims about the restriction of a sequence set                          *)
(***************************************************************************)
\* A sequence set of valid arguments reached the function of the sequence
\* sets: the bounding boxes of the whole value and of the region overlap
TopSeqSetCase ==
  /\ op = "top" /\ pc \in {"at", "minus"}
  /\ arg.temp.subtype = "TSEQUENCESET"
  /\ TopValidArgs
  /\ IF arg.to = "geom" THEN arg.geo.pts # {} ELSE arg.box.hasx
  /\ ~TopBboxDisjoint

\* The bounding box of the i-th sequence does not overlap the bounding box
\* of the region
TopSeqDisjoint(i) ==
  ~overlaps_stbox_stbox(tsequence_set_bbox(arg.temp.seqs[i]),
     IF arg.to = "geom"
       THEN geom_time_stbox(arg.geo.pts, arg.zspan, arg.period)
     ELSE arg.box)

\* What the restriction of the i-th sequence alone returns
TopSeqAlone(i, atfunc, junk, ub) ==
  IF arg.to = "geom"
    THEN tpointseq_restrict_geom_time(arg.temp.seqs[i], arg.geo.pts,
           arg.zspan, arg.period, atfunc)
  ELSE tpointseq_restrict_stbox(arg.temp.seqs[i], arg.box, arg.border_inc,
         atfunc, junk, ub)

\* The sequences of the results parts one after the other, as a value of the
\* temporal point; the first error or crash among them if there is one
RECURSIVE TopFlatten(_, _)
TopFlatten(parts, i) ==
  IF i > Len(parts) THEN <<>>
  ELSE (IF parts[i].val = Null THEN <<>> ELSE parts[i].val.seqs)
         \o TopFlatten(parts, i + 1)

TopConcat(parts) ==
  LET bad == {i \in 1 .. Len(parts) : parts[i].error # "" \/ parts[i].crash}
      first == CHOOSE i \in bad : \A j \in bad : i <= j
  IN  IF bad # {}
        THEN [val |-> Null, error |-> parts[first].error,
              crash |-> parts[first].crash]
      ELSE IF TopFlatten(parts, 1) = <<>> THEN Return(Null)
      ELSE Return([subtype |-> "TSEQUENCESET", srid |-> arg.temp.srid,
                   geodetic |-> arg.temp.geodetic,
                   seqs |-> TopFlatten(parts, 1)])

\* The whole i-th sequence as a result
TopSeqWhole(i) ==
  Return([subtype |-> "TSEQUENCESET", seqs |-> <<arg.temp.seqs[i]>>])

\* C23 (as claimed): the restriction of a sequence set to a geometry or a
\* box is the concatenation, in the order of the sequences, of the results
\* of its sequences, for the restriction at and minus; the restriction at
\* leaves out only sequences whose own restriction at is empty, and in the
\* restriction minus a sequence whose bounding box does not overlap the
\* region appears whole.
C23_SeqSetIsConcatenation ==
  TopSeqSetCase =>
    /\ \E junk \in LinJunk, ub \in {"crash", "empty"} :
         res.at = TopConcat([i \in 1 .. Len(arg.temp.seqs) |->
                     TopSeqAlone(i, TRUE, junk, ub)])
    /\ \A i \in 1 .. Len(arg.temp.seqs) :
         TopSeqDisjoint(i) =>
           \A junk \in LinJunk, ub \in {"crash", "empty"} :
             TopSeqAlone(i, TRUE, junk, ub) = Return(Null)
    /\ pc = "minus" =>
         \E junk \in LinJunk, ub \in {"crash", "empty"} :
           res.minus = TopConcat([i \in 1 .. Len(arg.temp.seqs) |->
                          IF TopSeqDisjoint(i) THEN TopSeqWhole(i)
                          ELSE TopSeqAlone(i, FALSE, junk, ub)])

(***************************************************************************)
(* Claims about the linear sequences that miss the box                     *)
(***************************************************************************)
\* arg.seq has two instants or more, its bounding box overlaps arg.box and
\* none of its segments has a point in the closed box
LinMissesBox ==
  /\ Len(arg.seq.insts) >= 2
  /\ \E i, j \in 1 .. Len(arg.seq.insts) :
       /\ RLe(arg.seq.insts[i].v.x, arg.box.xmax)
       /\ RLe(arg.box.xmin, arg.seq.insts[j].v.x)
  /\ \E i, j \in 1 .. Len(arg.seq.insts) :
       /\ RLe(arg.seq.insts[i].v.y, arg.box.ymax)
       /\ RLe(arg.box.ymin, arg.seq.insts[j].v.y)
  /\ arg.box.hast => inter_span_span(seq_period(arg.seq), arg.box.period).found
  /\ \A i \in 1 .. Len(arg.seq.insts) - 1 :
       ~SegmentInBox(arg.seq.insts[i], arg.seq.insts[i + 1], arg.box).ok

\* C24 (as claimed): for a linear sequence of two instants or more whose
\* bounding box overlaps the box while none of its segments has a point in
\* the box, the restriction at returns no result and the restriction minus
\* returns the whole sequence; the complement with respect to time is not
\* taken of an absent result of the restriction at.
C24_MissedBoxMinusIsWhole ==
  (op = "linbox" /\ pc = "minus" /\ LinMissesBox) =>
    /\ res.at = NoSequenceSet /\ ~res.error
    /\ ~res.crash
    /\ res.minus = <<arg.seq>>

\* The restriction at of such a sequence returned no result
C24_AtIsEmpty ==
  (op = "linbox" /\ pc \in {"at", "minus"} /\ LinMissesBox) =>
    res.at = NoSequenceSet /\ ~res.error

(***************************************************************************)
(* Specification of the loops: one step is one pass of the outer loop of a *)
(* splitter, or one pass of the loop of the clip.  The program runs on     *)
(* until its loop ends, hence the weak fairness of the steps.              *)
(***************************************************************************)
MaxLoopLen == 4

\* The corners of a square of one unit
LoopPoints == {Pt(x * GridDen, y * GridDen) : x \in {0, 1}, y \in {0, 1}}

\* Discrete and linear sequences of 2 .. MaxLoopLen instants
LoopSeqs ==
  UNION { [insts : { [i \in 1 .. n |-> [v |-> f[i], t |-> i]] :
                       f \in [1 .. n -> LoopPoints] },
           lower_inc : {TRUE}, upper_inc : {TRUE},
           interp : {DISCRETE, LINEAR}] : n \in 2 .. MaxLoopLen }

\* The points of the instants of a sequence, from 0
LoopPointsOf(seq) ==
  [i \in 1 .. Len(seq.insts) |-> Pt(seq.insts[i].v.x, seq.insts[i].v.y)]

\* The state of the clip when its loop is entered: lines 1676-1703
clip_start(p1, p2, box, hasz) ==
  LET z1 == IF hasz THEN p1.z ELSE RInt(0)
      z2 == IF hasz THEN p2.z ELSE RInt(0)
  IN  [x1 |-> p1.x, y1 |-> p1.y, z1 |-> z1,
       x2 |-> p2.x, y2 |-> p2.y, z2 |-> z2,
       code1 |-> computeCode(p1.x, p1.y, z1, hasz, box),
       code2 |-> computeCode(p2.x, p2.y, z2, hasz, box)]

\* The state before the outer loop of tpointseq_discstep_find_splits or of
\* tpointseq_linear_find_splits, or before the loop of cohenSutherlandClip
InitLoops ==
  /\ pc = "loop"
  /\ \/ /\ op = "discstep_loop"
        /\ arg \in { s \in LoopSeqs : s.interp = DISCRETE }
        /\ res = [start |-> 0,
                  bitarr |-> [i \in 0 .. Len(arg.insts) - 1 |-> FALSE],
                  numsplits |-> 0]
     \/ /\ op = "linear_loop"
        /\ arg \in { s \in LoopSeqs : s.interp = LINEAR }
        /\ \E st \in { linear_stationary(LoopPointsOf(arg), 1,
                         [bitarr |-> [i \in 0 .. Len(arg.insts) - 1 |-> FALSE],
                          numsplits |-> 0]) } :
             res = [start |-> 0, bitarr |-> st.bitarr,
                    numsplits |-> st.numsplits]
     \/ /\ op = "clip_loop"
        /\ \E hasz \in BOOLEAN :
             arg \in [p1 : ClipPoints(hasz), p2 : ClipPoints(hasz),
                      box : ClipBoxes(hasz), hasz : {hasz}]
        /\ res = [st |-> clip_start(arg.p1, arg.p2, arg.box, arg.hasz),
                  passes |-> 0, found |-> FALSE]

\* The inner while (true) of tpointseq_discstep_find_splits for the window
\* from start to end: [found, k]
RECURSIVE discstep_window(_, _, _, _, _)
discstep_window(insts, start, end, j, k) ==
  IF datum_point_eq(InstN(insts, j).v, InstN(insts, k).v)
    THEN [found |-> TRUE, k |-> k]
  ELSE IF j < k - 1 THEN discstep_window(insts, start, end, j + 1, k)
  ELSE IF k + 1 > end THEN [found |-> FALSE, k |-> k + 1]
  ELSE discstep_window(insts, start, end, start, k + 1)

\* One pass of while (start < end) of tpointseq_discstep_find_splits
DiscstepPass ==
  /\ op = "discstep_loop" /\ pc = "loop"
  /\ res.start < Len(arg.insts) - 1
  /\ \E r \in { discstep_window(arg.insts, res.start, Len(arg.insts) - 1,
                  res.start, res.start + 1) } :
       IF r.found
         THEN /\ res' = [start |-> r.k,
                         bitarr |-> [res.bitarr EXCEPT ![r.k] = TRUE],
                         numsplits |-> res.numsplits + 1]
              /\ pc' = "loop"
       ELSE \* if (k > end) break
            /\ res' = res
            /\ pc' = "done"
  /\ UNCHANGED <<op, arg>>

\* while (start < end) is false
DiscstepEnd ==
  /\ op = "discstep_loop" /\ pc = "loop"
  /\ ~(res.start < Len(arg.insts) - 1)
  /\ pc' = "done"
  /\ UNCHANGED <<op, arg, res>>

\* One pass of while (start < seq->count - 2) of
\* tpointseq_linear_find_splits
LinearPass ==
  /\ op = "linear_loop" /\ pc = "loop"
  /\ res.start < Len(arg.insts) - 2
  /\ \E end \in { next_end(res.bitarr, Len(arg.insts), res.start + 1) } :
       IF end = res.start + 1
         THEN res' = [res EXCEPT !.start = end]
       ELSE \E r \in { linear_scan(LoopPointsOf(arg), res.start, end,
                         res.start, res.start + 1) } :
              res' = [start |-> r.end,
                      bitarr |-> IF r.found
                                   THEN [res.bitarr EXCEPT ![r.end] = TRUE]
                                 ELSE res.bitarr,
                      numsplits |-> IF r.found THEN res.numsplits + 1
                                    ELSE res.numsplits]
  /\ pc' = "loop"
  /\ UNCHANGED <<op, arg>>

\* while (start < seq->count - 2) is false
LinearEnd ==
  /\ op = "linear_loop" /\ pc = "loop"
  /\ ~(res.start < Len(arg.insts) - 2)
  /\ pc' = "done"
  /\ UNCHANGED <<op, arg, res>>

\* One pass of the else branch of while (true) of cohenSutherlandClip;
\* passes counts the passes made
ClipPass ==
  /\ op = "clip_loop" /\ pc = "loop"
  /\ ~(res.st.code1 = 0 /\ res.st.code2 = 0)
  /\ ~BitAnd(res.st.code1, res.st.code2)
  /\ \E code_out \in { IF res.st.code1 # 0 THEN res.st.code1
                       ELSE res.st.code2 } :
       \E p \in { clip_intersection(res.st, code_out, arg.box, arg.hasz) } :
         \E next \in { clip_replace(res.st, p, arg.box, arg.hasz) } :
           res' = [res EXCEPT !.st = next, !.passes = @ + 1]
  /\ pc' = "loop"
  /\ UNCHANGED <<op, arg>>

\* The pass of while (true) of cohenSutherlandClip that accepts or rejects
ClipEnd ==
  /\ op = "clip_loop" /\ pc = "loop"
  /\ \/ /\ res.st.code1 = 0 /\ res.st.code2 = 0
        /\ res' = [res EXCEPT !.found = TRUE]
     \/ /\ ~(res.st.code1 = 0 /\ res.st.code2 = 0)
        /\ BitAnd(res.st.code1, res.st.code2)
        /\ res' = [res EXCEPT !.found = FALSE]
  /\ pc' = "done"
  /\ UNCHANGED <<op, arg>>

NextLoops ==
  \/ DiscstepPass
  \/ DiscstepEnd
  \/ LinearPass
  \/ LinearEnd
  \/ ClipPass
  \/ ClipEnd

SpecLoops == InitLoops /\ [][NextLoops]_vars /\ WF_vars(NextLoops)

(***************************************************************************)
(* Claims about the loops                                                  *)
(***************************************************************************)
\* A pass of the outer loop of a splitter that does not end the loop moves
\* the start of the window forward
LoopStartAdvances ==
  (op \in {"discstep_loop", "linear_loop"} /\ pc = "loop" /\ pc' = "loop")
    => res'.start > res.start

\* The face of the box on which the pass of the clip puts the endpoint it
\* replaces is a face that the endpoint violated
LoopClipOnViolatedFace ==
  (op = "clip_loop" /\ pc = "loop" /\ pc' = "loop") =>
    LET code == IF res.st.code1 # 0 THEN res.st.code1 ELSE res.st.code2
        p == IF res.st.code1 # 0
               THEN P3(res'.st.x1, res'.st.y1, res'.st.z1)
             ELSE P3(res'.st.x2, res'.st.y2, res'.st.z2)
    IN  \/ HasBit(code, LEFT) /\ p.x = arg.box.xmin
        \/ HasBit(code, RIGHT) /\ p.x = arg.box.xmax
        \/ HasBit(code, BOTTOM) /\ p.y = arg.box.ymin
        \/ HasBit(code, TOP) /\ p.y = arg.box.ymax
        \/ arg.hasz /\ HasBit(code, FRONT) /\ p.z = arg.box.zmin
        \/ arg.hasz /\ HasBit(code, BACK) /\ p.z = arg.box.zmax

\* The passes of the clip that replace an endpoint are no more than two for
\* each axis
LoopClipBounded ==
  op = "clip_loop" => res.passes <= 2 * (IF arg.hasz THEN 3 ELSE 2)

\* C25: every loop terminates: each pass of the outer loop of the two
\* splitters moves the start of the window forward or ends the loop, and the
\* loop of the clip accepts or rejects after a bounded number of
\* replacements, each of which puts the endpoint on a face of the box that
\* it violated.
C25_LoopsTerminate ==
  /\ [][LoopStartAdvances /\ LoopClipOnViolatedFace]_vars
  /\ [](LoopClipBounded)
  /\ <>(pc = "done")

\* C25 witness: the outer loop of a splitter ended after two passes or more
\* that moved the start of the window
C25_Witness ==
  /\ op = "discstep_loop" /\ pc = "done"
  /\ res.numsplits >= 2 /\ res.start < Len(arg.insts) - 1

\* The loop of the clip ended after both endpoints were replaced
C25_WitnessClip ==
  /\ op = "clip_loop" /\ pc = "done" /\ res.found /\ res.passes >= 2
  /\ P3(res.st.x1, res.st.y1, res.st.z1) # arg.p1
  /\ P3(res.st.x2, res.st.y2, res.st.z2) # arg.p2

\* The loops passed one by one leave what the functions return
LoopsAgree ==
  pc = "done" =>
    IF op = "discstep_loop"
      THEN [bitarr |-> res.bitarr, count |-> res.numsplits]
             = tpointseq_discstep_find_splits(arg)
    ELSE IF op = "linear_loop"
      THEN [bitarr |-> res.bitarr, count |-> res.numsplits]
             = tpointseq_linear_find_splits(arg)
    ELSE [found |-> res.found, st |-> res.st]
           = clip_loop(clip_start(arg.p1, arg.p2, arg.box, arg.hasz),
               arg.box, arg.hasz)

(***************************************************************************)
(* Specification of the segment kernel on whole units: the coordinates of  *)
(* the endpoints are whole numbers, MEOS_EPSILON is below one unit         *)
(***************************************************************************)
MaxUnitCoord == 2

UnitPoints ==
  {Pt(x * GridDen, y * GridDen) : x \in 0 .. MaxUnitCoord, y \in 0 .. MaxUnitCoord}

InitSegUnit ==
  /\ op = "seg"
  /\ pc = "call"
  /\ arg \in [a : UnitPoints, b : UnitPoints, c : UnitPoints, d : UnitPoints,
               p : {Pt(-1, -1)}]
  /\ res = NoRes

SpecSegUnit == InitSegUnit /\ [][NextSeg]_vars

(***************************************************************************)
(* Claims about the segment kernel on whole units                          *)
(***************************************************************************)
\* (q - p) x (s - r)
CrossOf(p, q, r, s) == (q.x - p.x) * (s.y - r.y) - (q.y - p.y) * (s.x - r.x)

\* (q - p) . (s - r)
DotOf(p, q, r, s) == (q.x - p.x) * (s.x - r.x) + (q.y - p.y) * (s.y - r.y)

\* The common points of the segments ab and cd of arg, from their equations:
\* the number of common points ("none", "one", "many") and, for one common
\* point, whether it is an endpoint of ab and whether it is an endpoint of
\* cd.  A point of ab is a + t (b - a) with 0 <= t <= 1, a point of cd is
\* c + u (d - c) with 0 <= u <= 1.
SegCommon ==
  LET a == arg.a
      b == arg.b
      c == arg.c
      d == arg.d
      den == CrossOf(a, b, c, d)
      \* lines that meet in one point: t = tnum / den, u = unum / den
      tnum == CrossOf(a, c, c, d) * SIGNUM(den)
      unum == CrossOf(a, c, a, b) * SIGNUM(den)
      \* the same line: c and d are at tc / len and td / len on ab
      len == DotOf(a, b, a, b)
      tc == DotOf(a, c, a, b)
      td == DotOf(a, d, a, b)
      lo == Max(0, Min(tc, td))
      hi == Min(len, Max(tc, td))
  IN  IF den # 0
        THEN IF 0 <= tnum /\ tnum <= Abs(den) /\ 0 <= unum /\ unum <= Abs(den)
               THEN [count |-> "one",
                     endab |-> tnum \in {0, Abs(den)},
                     endcd |-> unum \in {0, Abs(den)}]
             ELSE [count |-> "none", endab |-> FALSE, endcd |-> FALSE]
      ELSE IF CrossOf(a, c, a, b) # 0 \/ lo > hi
        THEN [count |-> "none", endab |-> FALSE, endcd |-> FALSE]
      ELSE IF lo < hi
        THEN [count |-> "many", endab |-> FALSE, endcd |-> FALSE]
      ELSE [count |-> "one", endab |-> lo \in {0, len},
            endcd |-> lo \in {tc, td}]

\* The classification of the common points
SegReference ==
  IF SegCommon.count = "none" THEN MEOS_SEG_NO_INTERSECTION
  ELSE IF SegCommon.count = "many" THEN MEOS_SEG_OVERLAP
  ELSE IF ~SegCommon.endab /\ ~SegCommon.endcd THEN MEOS_SEG_CROSS
  ELSE IF SegCommon.endab /\ SegCommon.endcd THEN MEOS_SEG_TOUCH_END
  ELSE MEOS_SEG_TOUCH

\* C26: for two non-degenerate segments with endpoints at whole units,
\* seg2d_intersection returns the classification of their common points:
\* no intersection exactly when they have no common point, overlap when
\* they have more than one, cross when the single common point is inside
\* both segments, touch at equal endpoints when it is an endpoint of both,
\* and touch otherwise.
C26_KernelAgreesWithReference ==
  (op = "seg" /\ pc = "seg2d_intersection"
     /\ arg.a # arg.b /\ arg.c # arg.d) =>
    res.type = SegReference

\* C26 witness: two segments that cross between the whole units were
\* classified
C26_Witness ==
  /\ op = "seg" /\ pc = "seg2d_intersection"
  /\ arg.a # arg.b /\ arg.c # arg.d
  /\ res.type = MEOS_SEG_CROSS
  /\ arg.a = Pt(0, 0) /\ arg.b = Pt(GridDen, GridDen)
  /\ arg.c = Pt(0, GridDen) /\ arg.d = Pt(GridDen, 0)

(***************************************************************************)
(* Claims about the fragments of a linear sequence restricted at a box     *)
(***************************************************************************)
\* The fragment f ends before the fragment g starts
LinBefore(f, g) ==
  LET last == f.insts[Len(f.insts)].t
      first == g.insts[1].t
  IN  \/ RLt(last, first)
      \/ last = first /\ ~(f.upper_inc /\ g.lower_inc)

\* The time span of the fragment f lies within the period of arg.seq
LinWithinPeriod(f) ==
  LET p == seq_period(arg.seq)
      first == f.insts[1].t
      last == f.insts[Len(f.insts)].t
  IN  /\ \/ RLt(p.lower, first)
         \/ p.lower = first /\ (f.lower_inc => p.lower_inc)
      /\ \/ RLt(last, p.upper)
         \/ p.upper = last /\ (f.upper_inc => p.upper_inc)

\* C27 (as claimed): the fragments of a linear sequence restricted at a box
\* are in strictly increasing order of time and pairwise disjoint in time,
\* and the time span of every fragment lies within the period of the
\* sequence: an instant at an exclusive lower or upper bound of the
\* sequence is not part of the result, also when the clipped piece is that
\* single instant.
C27_FragmentsOrderedWithinPeriod ==
  (op = "linbox" /\ pc = "at") =>
    /\ \A i, j \in 1 .. Len(res.at) : i < j => LinBefore(res.at[i], res.at[j])
    /\ \A i \in 1 .. Len(res.at) : LinWithinPeriod(res.at[i])

\* The fragments are in strictly increasing order of time and pairwise
\* disjoint in time
C27_FragmentsOrdered ==
  (op = "linbox" /\ pc = "at") =>
    \A i, j \in 1 .. Len(res.at) : i < j => LinBefore(res.at[i], res.at[j])

\* No fragment holds an instant at an exclusive upper bound of the sequence
C27_UpperBoundKept ==
  (op = "linbox" /\ pc = "at") =>
    \A i \in 1 .. Len(res.at) :
      LET f == res.at[i]
          p == seq_period(arg.seq)
      IN  f.insts[Len(f.insts)].t = p.upper => (f.upper_inc => p.upper_inc)

(***************************************************************************)
(* Specification of the mixed case of the linear box path: a segment with  *)
(* Z dimension is clipped to a box without Z dimension, then its clipped   *)
(* points are located in time                                              *)
(***************************************************************************)
\* The points of the linear box specification at two heights
MixedValues ==
  { P3(p.x, p.y, RInt(h * LinStep)) : p \in LinPoints, h \in 0 .. 1 }

InitMixed ==
  /\ op = "mixed"
  /\ pc = "call"
  /\ arg \in { a \in [inst1 : { [v |-> v, t |-> RInt(1), hasz |-> TRUE] :
                                  v \in MixedValues },
                      inst2 : { [v |-> v, t |-> RInt(2), hasz |-> TRUE] :
                                  v \in MixedValues },
                      box : { b \in LinBoxes : ~b.hast },
                      border_inc : BOOLEAN, lower_inc : BOOLEAN,
                      upper_inc : BOOLEAN, junk : LinJunk] :
                 ~datum_point_eq(a.inst1.v, a.inst2.v) }
  /\ res = NoRes

\* bool hasz = hasz_seq && hasz_box
MixedHasz == arg.inst1.hasz /\ arg.box.hasz

\* bool found = cohenSutherlandClip(p1, p2, box, hasz, border_inc, &p3, &p4,
\* &p3_inc, &p4_inc)
MixedClip ==
  /\ op = "mixed" /\ pc = "call"
  /\ res' = [clip |-> cohenSutherlandClip(arg.inst1.v, arg.inst2.v, arg.box,
                        MixedHasz, arg.border_inc,
                        [found |-> FALSE, p3 |-> NoPoint, p4 |-> NoPoint,
                         p3_inc |-> arg.junk.inc, p4_inc |-> arg.junk.inc]),
             on |-> <<>>, seqs |-> <<>>]
  /\ pc' = "clip"
  /\ UNCHANGED <<op, arg>>

\* if (found): the clipped points are located in time on the instants res.on
\* and the sequence of the clipped segment is made
MixedLocate ==
  /\ op = "mixed" /\ pc = "clip"
  /\ res.clip.found
  /\ \E on \in { linear_located_on(arg.inst1, arg.inst2, MixedHasz) } :
       \E r \in { linear_clipped(arg.inst1, arg.inst2, res.clip, MixedHasz,
                    arg.border_inc, arg.lower_inc, arg.upper_inc, arg.junk) } :
         res' = [res EXCEPT !.on = on, !.seqs = r]
  /\ pc' = "located"
  /\ UNCHANGED <<op, arg>>

NextMixed == MixedClip \/ MixedLocate

SpecMixed == InitMixed /\ [][NextMixed]_vars

\* The instant inst without its Z dimension, at the same place and time
MixedFlat(located, inst) ==
  /\ ~located.hasz
  /\ located.v.x = inst.v.x /\ located.v.y = inst.v.y
  /\ located.t = inst.t

\* C28 (as claimed): in the linear box path, when the sequence has a Z
\* dimension and the box has none, the timestamps of both clipped points are
\* located on the segment whose two endpoints are both the instants of the
\* segment without their Z dimension: no endpoint with Z dimension is
\* compared with the clipped points, which have none.
C28_LocatedOnForcedSegment ==
  (op = "mixed" /\ pc = "located") =>
    /\ MixedFlat(res.on[1], arg.inst1)
    /\ MixedFlat(res.on[2], arg.inst2)

\* The first endpoint is the instant without its Z dimension
MixedFirstForced ==
  (op = "mixed" /\ pc = "located") => MixedFlat(res.on[1], arg.inst1)

\* The timestamps located are those located on the segment of the two
\* instants without their Z dimension
MixedTimestampsAsForced ==
  (op = "mixed" /\ pc = "located") =>
    \A p \in {res.clip.p3, res.clip.p4} :
      tpointsegm_timestamp_at_value1(res.on[1], res.on[2], p, FALSE,
          arg.junk.t)
        = tpointsegm_timestamp_at_value1(tpoint_force2d(arg.inst1),
            tpoint_force2d(arg.inst2), p, FALSE, arg.junk.t)

(***************************************************************************)
(* Claims about the sequences make_simple and the At restrictions          *)
(* construct                                                               *)
(***************************************************************************)
\* C29 (as claimed): every fragment returned by make_simple has the
\* interpolation of the input sequence (discrete fragments for a discrete
\* input, step for step, linear for linear), also the trailing fragment that
\* holds only the last instant when the last instant is itself a cut.
C29_FragmentsKeepInterpolation ==
  (op = "simple" /\ pc = "make_simple") =>
    \A i \in 1 .. Len(res.frags) : res.frags[i].interp = arg.interp

\* The last instant of the sequence is a cut: tpointseq_cont_split adds the
\* trailing fragment
SimpleTrailing ==
  /\ arg.interp # DISCRETE
  /\ res.splits # Null
  /\ res.numsplits > 0
  /\ res.splits[Len(arg.insts) - 1]

\* All fragments but a trailing one have the interpolation of the input
SimpleOthersKeepInterpolation ==
  (op = "simple" /\ pc = "make_simple") =>
    \A i \in 1 .. Len(res.frags) :
      (i < Len(res.frags) \/ ~SimpleTrailing)
        => res.frags[i].interp = arg.interp

\* The trailing fragment has the interpolation the bool linear converts to:
\* 1 (DISCRETE) for a linear and 0 for a step sequence
SimpleTrailingInterpolation ==
  (op = "simple" /\ pc = "make_simple" /\ SimpleTrailing) =>
    res.frags[Len(res.frags)].interp = (IF arg.interp = LINEAR THEN 1 ELSE 0)

\* A sequence of one instant has both bounds inclusive
SingletonInclusive(s) == Len(s.insts) = 1 => (s.lower_inc /\ s.upper_inc)

\* The fragments of make_simple: timestamps are whole numbers
SimpleConstructed ==
  (op = "simple" /\ pc = "make_simple") =>
    \A i \in 1 .. Len(res.frags) :
      /\ SingletonInclusive(res.frags[i])
      /\ \A k \in 1 .. Len(res.frags[i].insts) - 1 :
           res.frags[i].insts[k].t < res.frags[i].insts[k + 1].t

\* The sequences of the step At restriction, at a geometry or at a box
StepConstructed ==
  (op = "step" /\ pc = "at") =>
    \A i \in 1 .. Len(res.seqs) :
      /\ SingletonInclusive(res.seqs[i])
      /\ \A k \in 1 .. Len(res.seqs[i].insts) - 1 :
           RLt(res.seqs[i].insts[k].t, res.seqs[i].insts[k + 1].t)

\* The sequences of the linear box At restriction
LinConstructed ==
  (op = "linbox" /\ pc = "at") =>
    \A i \in 1 .. Len(res.at) :
      /\ SingletonInclusive(res.at[i])
      /\ \A k \in 1 .. Len(res.at[i].insts) - 1 :
           RLt(res.at[i].insts[k].t, res.at[i].insts[k + 1].t)

\* C30 (as claimed): every sequence constructed by make_simple, by the step
\* At restriction (at a geometry or at a box) and by the linear box At
\* restriction that holds exactly one instant is constructed with both
\* bounds inclusive, and every constructed sequence of two or more instants
\* has strictly increasing timestamps, also for inputs whose own upper bound
\* is exclusive.
C30_ConstructedSequencesValid ==
  SimpleConstructed /\ StepConstructed /\ LinConstructed

\* In the sequences the step At restriction constructs the timestamps
\* increase strictly
StepTimestampsIncrease ==
  (op = "step" /\ pc = "at") =>
    \A i \in 1 .. Len(res.seqs) :
      \A k \in 1 .. Len(res.seqs[i].insts) - 1 :
        RLt(res.seqs[i].insts[k].t, res.seqs[i].insts[k + 1].t)

\* In the fragments of make_simple the timestamps increase strictly
SimpleTimestampsIncrease ==
  (op = "simple" /\ pc = "make_simple") =>
    \A i \in 1 .. Len(res.frags) :
      \A k \in 1 .. Len(res.frags[i].insts) - 1 :
        res.frags[i].insts[k].t < res.frags[i].insts[k + 1].t

====
